---- MODULE Spec2Model ----
(***************************************************************************)
(* A model of cl/recap/mergers.py: the reconciliation of scraped PACER     *)
(* dockets with the rows already stored.                                   *)
(*                                                                         *)
(* Conventions.  A nullable column or an optional dict key is a set with   *)
(* at most one element: None is {} and a present value v is {v}.  Text     *)
(* columns that are never NULL are plain strings with "" for blank.  Rows  *)
(* are records carrying their primary key pk; a table is a set of rows.    *)
(* date_created is a counter that grows with every insert.                 *)
(***************************************************************************)
EXTENDS Integers, Sequences, FiniteSets, TLC

VARIABLES
    d,          \* update_docket_metadata: the Docket object being merged
    md,         \* update_docket_metadata: the docket_data of the last call
    dockets,    \* find_docket_object: the Docket table
    fd,         \* find_docket_object: the last call and what it returned
    parties,    \* the Party table
    attorneys,  \* the Attorney table
    party_types,\* the PartyType rows of the docket
    roles,      \* the Role rows of the docket
    crim,       \* the CriminalCount and CriminalComplaint rows of the docket
    orgs,       \* AttorneyOrganization rows and their associations
    pa,         \* add_parties_and_attorneys: the position of the running call
    des,        \* the DocketEntry rows of the docket
    rds,        \* the RECAPDocument rows of the docket
    ids,        \* the next primary keys of DocketEntry and RECAPDocument
    dkt,        \* the docket the entries belong to: its court and its fields
    kl,         \* clean_duplicate_documents: the last call
    ae,         \* add_docket_entries: the last call
    ma,         \* merge_attachment_page_data: the last call
    sq,         \* calculate_recap_sequence_numbers: the last call
    cq,         \* process_case_query_report: the concurrent calls
    ap,        \* update_docket_appellate_metadata: the docket, its row and the last call
    pw,        \* add_parties_and_attorneys: the concurrent and retried calls
    ew,        \* add_create_docket_entry_transaction: the concurrent calls
    ow,        \* concurrent add_attorney calls and the AttorneyOrganization table
    po         \* the processing queue and the process_orphan_documents call

metaVars == <<d, md>>
locatorVars == <<dockets, fd>>
partyVars == <<parties, attorneys, party_types, roles, crim, orgs, pa>>
docVars == <<des, rds, ids, dkt, kl, ae, ma>>
vars == <<d, md, dockets, fd, parties, attorneys, party_types, roles, crim,
          orgs, pa, des, rds, ids, dkt, kl, ae, ma, sq, cq, ap, pw, ew, ow, po>>

None == {}
Some(v) == {v}
Val(o) == CHOOSE v \in o : TRUE

\* No find_docket_object call is pending.
FdIdle ==
    [called |-> FALSE,
     args |-> [pacer_case_id |-> None, docket_number |-> "",
               components |-> [federal_defendant_number |-> "",
                               federal_dn_judge_initials_assigned |-> "",
                               federal_dn_judge_initials_referred |-> ""]],
     result |-> None, docket |-> None, again |-> FALSE]

\* No add_parties_and_attorneys call is running and none has run.
PaIdle ==
    [pc |-> "idle", calls |-> 0, n |-> 0, names |-> {}, has_terminated |-> FALSE,
     updated_parties |-> {}, updated_attorneys |-> {},
     before |-> [party_types |-> {}, roles |-> {}]]

(***************************************************************************)
(* Metadata Merger: update_case_names and update_docket_metadata           *)
(***************************************************************************)

uct == "Unknown Case Title"

\* The case names a docket or a scrape can carry: two real names, the
\* placeholder and blank.
CaseNames == {"", uct, "x v. y", "a v. b"}

IsRealName(n) == n # "" /\ n # uct

\* cnt.make_case_name_short: an external pure function of the case name.
make_case_name_short(n) == IF IsRealName(n) THEN <<"short", n>> ELSE <<"short", "">>

\* A mutation of update_case_names that lets the placeholder overwrite a
\* real name (the second early return dropped).
update_case_names_uct_wins(dk, new_case_name) ==
    IF new_case_name = "" THEN dk
    ELSE [dk EXCEPT !.case_name = new_case_name,
                    !.case_name_short = make_case_name_short(new_case_name)]

\* A mutation of update_case_names that lets a blank incoming name through
\* (the first early return dropped).
update_case_names_blank_wins(dk, new_case_name) ==
    IF new_case_name = uct /\ dk.case_name # "" THEN dk
    ELSE [dk EXCEPT !.case_name = new_case_name,
                    !.case_name_short = make_case_name_short(new_case_name)]

update_case_names(dk, new_case_name) ==
    IF new_case_name = "" THEN dk
    ELSE IF new_case_name = uct /\ dk.case_name # "" THEN dk
    ELSE [dk EXCEPT !.case_name = new_case_name,
                    !.case_name_short = make_case_name_short(new_case_name)]

\* The scalar fields update_docket_metadata merges with `incoming or existing`.
FillFields ==
    {"docket_number", "date_filed", "date_last_filing", "date_terminated",
     "cause", "jury_demand", "jurisdiction_type", "mdl_status",
     "assigned_to_str", "referred_to_str", "federal_dn_office_code",
     "federal_dn_case_type", "federal_dn_judge_initials_assigned",
     "federal_dn_judge_initials_referred", "federal_defendant_number"}

\* The key of docket_data that feeds each field of the docket.
DataKey(f) == IF f = "jurisdiction_type" THEN "jurisdiction" ELSE f

FillValues == {"", "v1", "v2"}

\* A mutation of OrStr that always takes the incoming value, blank or not.
OrStr_Incoming(a, b) == a

\* Python's `a or b` on strings.
OrStr(a, b) == IF a # "" THEN a ELSE b

\* A new Docket(): every text field blank, no pacer_case_id.
BlankDocket ==
    [f \in FillFields |-> ""] @@
    [case_name |-> "", case_name_short |-> <<"short", "">>,
     nature_of_suit |-> "", pacer_case_id |-> "",
     assigned_to |-> None, referred_to |-> None,
     blocked |-> FALSE, ia_needs_upload |-> FALSE]

\* docket_data as the parsers deliver it; the fill fields of one report
\* carry one of the FillValues each.
DocketData ==
    { [f \in {DataKey(g) : g \in FillFields} |-> v] @@
      [case_name |-> cn, nature_of_suit |-> nos, pacer_case_id |-> pci]
      : v \in FillValues, cn \in CaseNames, nos \in FillValues,
        pci \in {"", "c1"} }

\* lookup_judge_by_full_name_and_set_attr: an external lookup; a blank name
\* clears nothing, a name resolves to a judge or to no judge.
JudgeOutcomes(old, name) == IF name = "" THEN {old} ELSE {None, Some(1)}

\* A mutation of update_docket_metadata that merges nature_of_suit like the
\* other scalar fields, incoming value first.
update_docket_metadata_nos_incoming(dk, docket_data, assigned, referred, blk) ==
    LET d1 == update_case_names(dk, docket_data.case_name)
    IN  [f \in FillFields |-> OrStr(docket_data[DataKey(f)], d1[f])] @@
        [case_name |-> d1.case_name,
         case_name_short |-> d1.case_name_short,
         ia_needs_upload |-> TRUE,
         pacer_case_id |-> OrStr(d1.pacer_case_id, docket_data.pacer_case_id),
         nature_of_suit |-> OrStr(docket_data.nature_of_suit, d1.nature_of_suit),
         assigned_to |-> assigned,
         referred_to |-> referred,
         blocked |-> blk]

update_docket_metadata(dk, docket_data, assigned, referred, blk) ==
    LET d1 == update_case_names(dk, docket_data.case_name)
    IN  [f \in FillFields |-> OrStr(docket_data[DataKey(f)], d1[f])] @@
        [case_name |-> d1.case_name,
         case_name_short |-> d1.case_name_short,
         ia_needs_upload |-> TRUE,
         pacer_case_id |-> OrStr(d1.pacer_case_id, docket_data.pacer_case_id),
         nature_of_suit |-> OrStr(d1.nature_of_suit, docket_data.nature_of_suit),
         assigned_to |-> assigned,
         referred_to |-> referred,
         blocked |-> blk]

UpdateDocketMetadata ==
    \E docket_data \in DocketData, blk \in BOOLEAN :
    \E assigned \in JudgeOutcomes(d.assigned_to, docket_data.assigned_to_str),
       referred \in JudgeOutcomes(d.referred_to, docket_data.referred_to_str) :
        /\ d' = update_docket_metadata(d, docket_data, assigned, referred, blk)
        /\ md' = [called |-> TRUE, data |-> docket_data]
        /\ UNCHANGED <<locatorVars, partyVars, docVars, sq, cq, ap, pw, ew, ow, po>>

\* No update_docket_metadata call has run.
MdIdle ==
    [called |-> FALSE,
     data |-> CHOOSE x \in DocketData :
                x.case_name = "" /\ x.nature_of_suit = ""
                /\ x.pacer_case_id = "" /\ x.cause = ""]

\* No clean_duplicate_documents call has run.
KlIdle == [called |-> FALSE, params |-> "", before |-> {}, result |-> None]

\* No add_docket_entries call has run.
AeIdle ==
    [called |-> FALSE, docket_entries |-> <<>>,
     do_not_update_existing |-> FALSE, repeats |-> 0, dicts |-> 0,
     before |-> [des |-> {}, rds |-> {}], status |-> "done",
     des_created |-> {}, rds_created |-> {}, content_updated |-> FALSE]

\* No merge_attachment_page_data call has run.
MaIdle ==
    [called |-> FALSE, calls |-> 0, dicts |-> 0,
     args |-> [pacer_case_id |-> None, pacer_doc_id |-> "",
               document_number |-> None, text |-> None,
               attachment_dicts |-> <<>>, debug |-> FALSE,
               is_acms_attachment |-> FALSE],
     status |-> "done", main |-> None, before |-> {}, created |-> {},
     affected |-> {}]

\* No process_case_query_report call is running.
CqIdle == <<>>

\* A new Docket() as far as the appellate step reads it: no primary key,
\* blank appellate fields, no originating court.
NewAppellateDocket ==
    [pk |-> None, panel_str |-> "", appellate_fee_status |-> "",
     appellate_case_type_information |-> "", appeal_from_str |-> "",
     appeal_from_id |-> None, originating_court_information |-> None]

\* No appellate call has run; the docket is new and nothing is stored.
ApIdle ==
    [mem |-> NewAppellateDocket, row |-> None, ogs |-> {}, calls |-> 0,
     call |-> [op |-> "", appellate |-> FALSE, data |-> <<>>, og |-> None]]

\* No concurrent or retried add_parties_and_attorneys call is modelled.
PwIdle == <<>>

\* No concurrent add_create_docket_entry_transaction call is modelled.
EwIdle == <<>>

\* No concurrent add_attorney call is modelled.
OwIdle == <<>>

\* No process_orphan_documents call has run and the queue is not modelled.
PoIdle == <<>>

\* calculate_recap_sequence_numbers has not been called.
SqIdle == [called |-> FALSE, docket_entries |-> <<>>, result |-> <<>>]

\* The docket the entries belong to, in a district court.
DktInit ==
    [appellate |-> FALSE, unique_raises |-> FALSE, date_last_filing |-> None,
     pacer_case_id |-> "c1", document_number |-> "1", html_pages |-> 0,
     ia_needs_upload |-> FALSE]

\* A district-court docket without entries.
NoEntries ==
    /\ des = {}
    /\ rds = {}
    /\ ids = [de |-> 1, rd |-> 1]
    /\ dkt = DktInit
    /\ kl = KlIdle
    /\ ae = AeIdle
    /\ ma = MaIdle
    /\ sq = SqIdle
    /\ cq = CqIdle
    /\ ap = ApIdle
    /\ pw = PwIdle
    /\ ew = EwIdle
    /\ ow = OwIdle
    /\ po = PoIdle

\* The tables are empty and no call is running.
EmptyStore ==
    /\ NoEntries
    /\ d = BlankDocket
    /\ md = MdIdle
    /\ dockets = {}
    /\ fd = FdIdle
    /\ parties = {}
    /\ attorneys = {}
    /\ party_types = {}
    /\ roles = {}
    /\ crim = {}
    /\ orgs = [rows |-> {}, assoc |-> {}]
    /\ pa = PaIdle

MetaInit == EmptyStore

MetaNext == UpdateDocketMetadata

SpecMeta == MetaInit /\ [][MetaNext]_vars

\* C2: in every update_docket_metadata call the resulting case name is the
\* incoming one exactly when the incoming one is a real name, or is the
\* placeholder while the existing name is blank; otherwise the existing
\* name is kept.
C2_CaseNameTable ==
    [][md'.called =>
        d'.case_name =
            IF \/ IsRealName(md'.data.case_name)
               \/ (md'.data.case_name = uct /\ d.case_name = "")
            THEN md'.data.case_name
            ELSE d.case_name]_vars

\* A call in which the placeholder arrived and a real name was kept.
C2_Witness ==
    md.called /\ md.data.case_name = uct /\ IsRealName(d.case_name)

\* C3: over any sequence of update_docket_metadata calls a real case name
\* is never followed by the placeholder or blank, and a non-blank case name
\* is never followed by blank.
C3_CaseNameMonotonic ==
    [][/\ IsRealName(d.case_name) => IsRealName(d'.case_name)
       /\ d.case_name # "" => d'.case_name # ""]_vars

\* A call in which a blank name arrived on a docket that has a real name.
C3_Witness ==
    md.called /\ md.data.case_name = "" /\ IsRealName(d.case_name)

\* C21: update_docket_metadata leaves each of the scalar fields (docket
\* number, dates, cause, jury demand, jurisdiction type, MDL status, the two
\* judge strings and the five docket-number components) at the incoming
\* value when that is non-empty and at the value before the call otherwise.
C21_KeepUnlessIncoming ==
    [][md'.called =>
        \A f \in FillFields :
            d'[f] = IF md'.data[DataKey(f)] # "" THEN md'.data[DataKey(f)]
                    ELSE d[f]]_vars

\* A call with blank incoming fields has run on a docket whose fields were
\* set by an earlier call.
C21_Witness ==
    /\ md.called
    /\ md.data.cause = ""
    /\ d.cause = "v1"
    /\ d.jurisdiction_type = "v1"

\* C22: once nature_of_suit is non-empty no update_docket_metadata call
\* changes it, whatever the later input carries.
C22_NatureOfSuitImmutable ==
    [][d.nature_of_suit # "" => d'.nature_of_suit = d.nature_of_suit]_vars

\* A call carrying another nature of suit has run on a docket that had one.
C22_Witness ==
    /\ md.called
    /\ d.nature_of_suit = "v1"
    /\ md.data.nature_of_suit = "v2"

(***************************************************************************)
(* Docket Locator: find_docket_object                                      *)
(*                                                                         *)
(* One court is modelled, so the court_id filter of every query is left    *)
(* out.  A Docket row is                                                   *)
(*   [pk, date_created, pacer_case_id, docket_number, docket_number_core,  *)
(*    federal_defendant_number, federal_dn_judge_initials_assigned,        *)
(*    federal_dn_judge_initials_referred].                                 *)
(***************************************************************************)

\* Bound on the rows of the Docket table.
MaxDockets == 2

\* Raw docket numbers: two district numbers of one case number and two case
\* types, and one that no pattern recognises.
DocketNumbers == {"1:12-cv-00123", "1:12-cr-00123", "misc 5"}

\* cl.lib.model_helpers.make_docket_number_core: two-digit year and the
\* zero-padded serial, or blank when the number has no known shape.
make_docket_number_core(dn) ==
    IF dn \in {"1:12-cv-00123", "1:12-cr-00123"} THEN "1200123" ELSE ""

\* cl.lib.model_helpers.clean_docket_number: the lower-cased district
\* number when the text holds exactly one full one, else blank.
clean_docket_number(dn) ==
    IF dn \in {"1:12-cv-00123", "1:12-cr-00123"} THEN dn ELSE ""

DnComponents ==
    {"federal_defendant_number", "federal_dn_judge_initials_assigned",
     "federal_dn_judge_initials_referred"}

\* The component values one report carries.
ComponentSets ==
    { [federal_defendant_number |-> a,
       federal_dn_judge_initials_assigned |-> b,
       federal_dn_judge_initials_referred |-> c]
      : a \in {"", "1", "2"}, b \in {""}, c \in {""} }

NoComponents ==
    [federal_defendant_number |-> "",
     federal_dn_judge_initials_assigned |-> "",
     federal_dn_judge_initials_referred |-> ""]

\* The arguments of a find_docket_object call.
FindArgs ==
    [pacer_case_id : {None, Some("c1"), Some("c2")},
     docket_number : DocketNumbers \cup {""},
     components : ComponentSets]

Earliest(rows) == CHOOSE r \in rows : \A o \in rows : r.date_created <= o.date_created
Latest(rows) == CHOOSE r \in rows : \A o \in rows : r.date_created >= o.date_created

confirm_docket_number_core_lookup_match_Rejects(dk, docket_number, comps) ==
    None

confirm_docket_number_core_lookup_match(dk, docket_number, comps) ==
    IF clean_docket_number(dk.docket_number) # clean_docket_number(docket_number)
    THEN None
    ELSE IF \E k \in DnComponents : comps[k] # "" /\ dk[k] # "" /\ comps[k] # dk[k]
    THEN None
    ELSE Some(dk.pk)

\* One dict of the lookups list: which keys it has and their values.
Kw(has_pci, pci, core, dn) ==
    [has_pci |-> has_pci, pacer_case_id |-> pci,
     docket_number_core |-> core, docket_number |-> dn]

\* A mutation of the lookups list that leaves the raw docket number out.
Lookups_NoRawTier(a) ==
    LET core == make_docket_number_core(a.docket_number)
    IN  IF a.pacer_case_id # None
        THEN (IF core # ""
              THEN <<Kw(TRUE, a.pacer_case_id, Some(core), None),
                     Kw(TRUE, None, Some(core), None)>>
              ELSE <<>>)
             \o <<Kw(TRUE, a.pacer_case_id, None, None)>>
        ELSE IF core # ""
        THEN <<Kw(TRUE, None, Some(core), None), Kw(FALSE, None, Some(core), None)>>
        ELSE <<>>

\* The lookups list built from the arguments (lines 151-193).
Lookups(a) ==
    LET core == make_docket_number_core(a.docket_number)
        has_id == a.pacer_case_id # None
    IN  (IF has_id
         THEN (IF core # ""
               THEN <<Kw(TRUE, a.pacer_case_id, Some(core), None),
                      Kw(TRUE, None, Some(core), None)>>
               ELSE <<>>)
              \o <<Kw(TRUE, a.pacer_case_id, None, None)>>
         ELSE <<>>)
        \o
        (IF core # "" /\ ~has_id
         THEN <<Kw(TRUE, None, Some(core), None), Kw(FALSE, None, Some(core), None)>>
         ELSE IF a.docket_number # "" /\ ~has_id
         THEN <<Kw(TRUE, None, None, Some(a.docket_number))>>
         ELSE <<>>)

\* Docket.objects.filter(court_id=court_id, **kwargs)
FilterDockets(rows, kw) ==
    { r \in rows :
        /\ kw.has_pci => r.pacer_case_id = kw.pacer_case_id
        /\ kw.docket_number_core # None => r.docket_number_core = Val(kw.docket_number_core)
        /\ kw.docket_number # None => r.docket_number = Val(kw.docket_number) }

\* kwargs.get("pacer_case_id") is None and kwargs.get("docket_number_core")
IsCoreLookup(kw) ==
    /\ (~kw.has_pci \/ kw.pacer_case_id = None)
    /\ kw.docket_number_core # None

\* A mutation of the loop body that settles an ambiguous lookup with the
\* newest row instead of the oldest.
LookupOnce_newest(rows, kw, a) ==
    LET ds == FilterDockets(rows, kw)
        count == Cardinality(ds)
    IN  IF count = 0 THEN None
        ELSE IF count = 1
        THEN LET dk == CHOOSE r \in ds : TRUE
             IN  IF IsCoreLookup(kw)
                 THEN confirm_docket_number_core_lookup_match(
                          dk, a.docket_number, a.components)
                 ELSE Some(dk.pk)
        ELSE LET dn_queryset ==
                     { r \in ds : \A k \in DnComponents :
                                    a.components[k] # "" => r[k] = a.components[k] }
             IN  IF Cardinality(dn_queryset) = 1
                 THEN Some((CHOOSE r \in dn_queryset : TRUE).pk)
                 ELSE LET dk == Latest(ds)
                      IN  IF IsCoreLookup(kw)
                          THEN confirm_docket_number_core_lookup_match(
                                   dk, a.docket_number, NoComponents)
                          ELSE Some(dk.pk)

\* One pass of the loop body for kwargs kw: the pk found, or None.
LookupOnce(rows, kw, a) ==
    LET ds == FilterDockets(rows, kw)
        count == Cardinality(ds)
    IN  IF count = 0 THEN None
        ELSE IF count = 1
        THEN LET dk == CHOOSE r \in ds : TRUE
             IN  IF IsCoreLookup(kw)
                 THEN confirm_docket_number_core_lookup_match(
                          dk, a.docket_number, a.components)
                 ELSE Some(dk.pk)
        ELSE LET dn_queryset ==
                     { r \in ds : \A k \in DnComponents :
                                    a.components[k] # "" => r[k] = a.components[k] }
             IN  IF Cardinality(dn_queryset) = 1
                 THEN Some((CHOOSE r \in dn_queryset : TRUE).pk)
                 ELSE LET dk == Earliest(ds)
                      IN  IF IsCoreLookup(kw)
                          THEN confirm_docket_number_core_lookup_match(
                                   dk, a.docket_number, NoComponents)
                          ELSE Some(dk.pk)

RECURSIVE TryLookups(_, _, _, _)
TryLookups(rows, lookups, i, a) ==
    IF i > Len(lookups) THEN None
    ELSE LET got == LookupOnce(rows, lookups[i], a)
         IN  IF got # None THEN got ELSE TryLookups(rows, lookups, i + 1, a)

\* The pk of the docket returned, or None for a new unsaved Docket.
find_docket_object(rows, a) == TryLookups(rows, Lookups(a), 1, a)

\* A mutation in which find_docket_object saves the docket it constructs.
StoreAfterFind_saves(rows, a) ==
    IF find_docket_object(rows, a) = None /\ Cardinality(rows) < MaxDockets
    THEN rows \cup
         {[pk |-> Cardinality(rows) + 1, date_created |-> Cardinality(rows) + 1,
           pacer_case_id |-> a.pacer_case_id,
           docket_number |-> a.docket_number,
           docket_number_core |-> make_docket_number_core(a.docket_number)]
          @@ a.components}
    ELSE rows

\* What a find_docket_object call leaves in the Docket table: the function
\* only reads, and a docket it constructs is returned unsaved.
StoreAfterFind(rows, a) == rows

\* lines 242-248: Docket(source=RECAP, pacer_case_id=.., court_id=..); pk 0
\* stands for an object that has no primary key yet
NewDocket(pacer_case_id) ==
    [pk |-> 0, date_created |-> 0, pacer_case_id |-> pacer_case_id,
     docket_number |-> "", docket_number_core |-> ""] @@ NoComponents

\* lines 242-254: the Docket object the call returns
ReturnedDocket(rows, found, a) ==
    IF found = None THEN NewDocket(a.pacer_case_id)
    ELSE CHOOSE r \in rows : r.pk = Val(found)

\* A call starts when no call is pending; a pending call can be repeated
\* with the same arguments.
FindDocketObject ==
    \E a \in FindArgs :
        /\ ~fd.called \/ a = fd.args
        /\ fd' = [called |-> TRUE, args |-> a,
                  result |-> find_docket_object(dockets, a),
                  docket |-> Some(ReturnedDocket(
                                 dockets, find_docket_object(dockets, a), a)),
                  again |-> fd.called]
        /\ dockets' = StoreAfterFind(dockets, a)
        /\ UNCHANGED <<metaVars, partyVars, docVars, sq, cq, ap, pw, ew, ow, po>>

\* Docket.save() fills docket_number_core from the docket number when the
\* core is still blank.
SavedCore(core, dn) == IF core # "" THEN core ELSE make_docket_number_core(dn)

\* The row the caller saves after a lookup (merge_pacer_docket_into_cl_docket,
\* process_case_query_report): the docket returned, with the case id set if
\* it had none and the docket number and components merged by
\* update_docket_metadata.
MergedRow(rows, a, found) ==
    IF found = None
    THEN [pk |-> Cardinality(rows) + 1, date_created |-> Cardinality(rows) + 1,
          pacer_case_id |-> a.pacer_case_id,
          docket_number |-> a.docket_number,
          docket_number_core |-> make_docket_number_core(a.docket_number)]
         @@ a.components
    ELSE LET dk == CHOOSE r \in rows : r.pk = Val(found)
         IN  [pk |-> dk.pk, date_created |-> dk.date_created,
              pacer_case_id |->
                  IF dk.pacer_case_id # None THEN dk.pacer_case_id ELSE a.pacer_case_id,
              docket_number |-> OrStr(a.docket_number, dk.docket_number),
              docket_number_core |->
                  SavedCore(dk.docket_number_core,
                            OrStr(a.docket_number, dk.docket_number))]
             @@ [k \in DnComponents |-> OrStr(a.components[k], dk[k])]

\* The caller saves the docket the last lookup returned.
SaveDocket ==
    /\ fd.called
    /\ fd.result = None => Cardinality(dockets) < MaxDockets
    /\ fd.args.docket_number # ""
    /\ LET row == MergedRow(dockets, fd.args, fd.result)
       IN  dockets' = {r \in dockets : r.pk # row.pk} \cup {row}
    /\ fd' = FdIdle
    /\ UNCHANGED <<metaVars, partyVars, docVars, sq, cq, ap, pw, ew, ow, po>>

\* The caller ends without saving the docket (its save raised, or nothing
\* was to be merged).
DropDocket ==
    /\ fd.called
    /\ fd' = FdIdle
    /\ UNCHANGED <<dockets, metaVars, partyVars, docVars, sq, cq, ap, pw, ew, ow, po>>

LocatorInit == EmptyStore

LocatorNext == FindDocketObject \/ SaveDocket \/ DropDocket

SpecLocator == LocatorInit /\ [][LocatorNext]_vars

\* The dockets without a case id whose docket_number_core is that of the
\* pending call's docket number.
SameCoreNoId ==
    { r \in dockets :
        /\ r.pacer_case_id = None
        /\ r.docket_number_core = make_docket_number_core(fd.args.docket_number) }

\* The case of C8: a call without a case id, exactly two dockets without a
\* case id share the input's core, and the supplied components do not
\* single one of them out.
C8_Case ==
    /\ fd.called
    /\ fd.args.pacer_case_id = None
    /\ make_docket_number_core(fd.args.docket_number) # ""
    /\ Cardinality(SameCoreNoId) = 2
    /\ Cardinality({ r \in SameCoreNoId : \A k \in DnComponents :
            fd.args.components[k] # "" => r[k] = fd.args.components[k] }) # 1

C19_Case ==
    /\ fd.called
    /\ fd.args.pacer_case_id # None
    /\ ~\E r \in dockets : r.pacer_case_id = fd.args.pacer_case_id
    /\ Cardinality(SameCoreNoId) = 1
    /\ \A r \in SameCoreNoId :
          /\ clean_docket_number(r.docket_number)
               = clean_docket_number(fd.args.docket_number)
          /\ \A k \in DnComponents :
                ~(fd.args.components[k] # "" /\ r[k] # ""
                  /\ fd.args.components[k] # r[k])

\* C19 as stated: in that case the call returns the stored docket.
C19_Original ==
    C19_Case => fd.result = Some((CHOOSE r \in SameCoreNoId : TRUE).pk)

\* C19 amended: in that case, when the shared docket_number_core is not
\* blank, the call returns the stored docket instead of a new one.
C19_AdoptsIdlessDocket ==
    (C19_Case /\ make_docket_number_core(fd.args.docket_number) # "")
        => fd.result = Some((CHOOSE r \in SameCoreNoId : TRUE).pk)

C19_Witness ==
    /\ C19_Case
    /\ make_docket_number_core(fd.args.docket_number) # ""
    /\ Cardinality(dockets) = 2
    /\ fd.result = Some((CHOOSE r \in SameCoreNoId : TRUE).pk)
    /\ Val(fd.docket).pacer_case_id = None

\* the stored dockets without a case id that carry the raw docket number of
\* the pending call
SameRawNoId ==
    {r \in dockets : /\ r.pacer_case_id = None
                     /\ r.docket_number = fd.args.docket_number}

\* The case of C20: a call without a case id whose lookups by
\* docket_number_core yield nothing, while a docket without a case id
\* carries the same raw docket number.
C20_Case ==
    /\ fd.called
    /\ fd.args.pacer_case_id = None
    /\ fd.args.docket_number # ""
    /\ \A i \in 1..Len(Lookups(fd.args)) :
          Lookups(fd.args)[i].docket_number_core # None
              => LookupOnce(dockets, Lookups(fd.args)[i], fd.args) = None
    /\ SameRawNoId # {}

\* C20 as stated: in that case the raw docket number is tried as a last
\* resort and a stored docket carrying it is returned.
C20_Original ==
    C20_Case => \E r \in SameRawNoId : fd.result = Some(r.pk)

\* C20 amended: the lookup by raw docket number is made only when the docket
\* number has a blank docket_number_core; in that case a stored docket with
\* the same raw docket number and no case id is returned.
C20_RawNumberWhenNoCore ==
    (C20_Case /\ make_docket_number_core(fd.args.docket_number) = "")
        => \E r \in SameRawNoId : fd.result = Some(r.pk)

C20_Witness ==
    /\ C20_Case
    /\ make_docket_number_core(fd.args.docket_number) = ""
    /\ Cardinality(dockets) = 2
    /\ \E r \in SameRawNoId : fd.result = Some(r.pk)

\* no lookup of the call yields a docket
NoTierMatches(rows, a) ==
    \A i \in 1..Len(Lookups(a)) : LookupOnce(rows, Lookups(a)[i], a) = None

\* C18: when no lookup tier yields a usable match, find_docket_object
\* returns a new unsaved Docket carrying the given case id, and the Docket
\* table holds the same rows as before the call.
C18_NewUnsavedDocket ==
    [][(fd'.called /\ NoTierMatches(dockets, fd'.args))
        => /\ fd'.result = None
           /\ fd'.docket = Some(NewDocket(fd'.args.pacer_case_id))
           /\ \A r \in dockets : r.pk # 0
           /\ dockets' = dockets]_vars

\* A call with a case id on a store whose dockets were looked at and
\* rejected.
C18_Witness ==
    /\ fd.called
    /\ fd.args.pacer_case_id # None
    /\ NoTierMatches(dockets, fd.args)
    /\ \E i \in 1..Len(Lookups(fd.args)) :
          FilterDockets(dockets, Lookups(fd.args)[i]) # {}
    /\ Val(fd.docket).pk = 0
    /\ Val(fd.docket).pacer_case_id = fd.args.pacer_case_id

(***************************************************************************)
(* Party/Attorney Reconciler: add_parties_and_attorneys                    *)
(*                                                                         *)
(* The tables hold the rows of one docket d, so every docket=d filter of   *)
(* the code is the whole table here.  The call runs inside one             *)
(* transaction; pa.pc is its position: MergeParty is one turn of the loop  *)
(* over the party dicts, DisassociateExtraneous is the call after the      *)
(* loop, which ends the call.                                              *)
(***************************************************************************)
MaxCalls == 2
MaxParties == 2
MaxPartyRows == 3
MaxAttorneyRows == 3

PartyNames == {"P1", "P2"}
LEAD_RAW == "LEAD ATTORNEY"
TERMINATED_RAW == "TERMINATED: 03/12/2013"
TerminatedRoles == {"TERMINATED", "SELF_TERMINATED"}

\* cl.lib.pacer.normalize_attorney_role on the two raw strings drawn here
normalize_attorney_role(r) ==
    IF r = TERMINATED_RAW
    THEN [role |-> "TERMINATED", date_action |-> Some(1), role_raw |-> r]
    ELSE [role |-> "ATTORNEY_LEAD", date_action |-> None, role_raw |-> r]

\* roles = remove_duplicate_dicts([normalize_attorney_role(r) for r in roles])
normalize_attorney_roles(raw) ==
    {normalize_attorney_role(raw[i]) : i \in DOMAIN raw}

\* cl.lib.pacer.normalize_attorney_contact: the organisation's lookup key and
\* whether attorney contact details were parsed; both empty for no contact
normalize_attorney_contact(contact) ==
    IF contact = "" THEN [lookup_key |-> None, atty_info |-> FALSE]
    ELSE [lookup_key |-> Some(contact), atty_info |-> TRUE]

AttorneyLists ==
    { <<>>,
      << [name |-> "A1", contact |-> "", roles |-> <<LEAD_RAW>>] >>,
      << [name |-> "A1", contact |-> "firm",
          roles |-> <<LEAD_RAW, TERMINATED_RAW>>] >>,
      << [name |-> "A1", contact |-> "", roles |-> <<LEAD_RAW, LEAD_RAW>>],
         [name |-> "A2", contact |-> "firm", roles |-> <<>>] >> }

CriminalData ==
    [highest_offense_level_opening |-> "felony",
     highest_offense_level_terminated |-> "",
     counts |-> {"18:1343"}, complaints |-> {}]

\* type, extra_info, date_terminated and criminal_data of a party dict
PartyProfiles ==
    { [type |-> "Plaintiff", extra_info |-> "", date_terminated |-> None,
       criminal_data |-> None],
      [type |-> "Defendant", extra_info |-> "x", date_terminated |-> Some(1),
       criminal_data |-> None],
      [type |-> "Defendant", extra_info |-> "", date_terminated |-> None,
       criminal_data |-> Some(CriminalData)] }

PartyDicts ==
    { [name |-> n, type |-> pr.type, extra_info |-> pr.extra_info,
       date_terminated |-> pr.date_terminated,
       criminal_data |-> pr.criminal_data, attorneys |-> al] :
      n \in PartyNames, pr \in PartyProfiles, al \in AttorneyLists }

MaxPk(rows) == IF rows = {} THEN 0
               ELSE CHOOSE k \in {r.pk : r \in rows} :
                        \A r \in rows : r.pk <= k

\* rows.earliest("date_created"): pks are handed out in creation order
EarliestCreated(rows) == CHOOSE r \in rows : \A o \in rows : r.pk <= o.pk

\* add_attorney on the tables st = [attorneys, roles, orgs]; the result
\* carries the attorney's pk
add_attorney(st, atty, p) ==
    LET info == normalize_attorney_contact(atty.contact)
        attys == {a \in st.attorneys :
                    a.name = atty.name
                    /\ \E r \in st.roles : r.attorney = a.pk}
        made == [pk |-> MaxPk(st.attorneys) + 1, name |-> atty.name,
                 contact_raw |-> atty.contact]
        a == IF attys = {} THEN made ELSE EarliestCreated(attys)
        withA == IF attys = {} THEN st.attorneys \cup {made} ELSE st.attorneys
        orgs1 == IF atty.contact # "" /\ info.lookup_key # None
                 THEN [rows |-> st.orgs.rows \cup {Val(info.lookup_key)},
                       assoc |-> st.orgs.assoc \cup
                                   {[attorney |-> a.pk,
                                     org |-> Val(info.lookup_key)]}]
                 ELSE st.orgs
        saved == IF atty.contact # "" /\ info.atty_info
                 THEN {IF r.pk = a.pk
                       THEN [r EXCEPT !.contact_raw = atty.contact]
                       ELSE r : r \in withA}
                 ELSE withA
        normalized == normalize_attorney_roles(atty.roles)
        new_roles == IF normalized = {}
                     THEN {[role |-> "UNKNOWN", date_action |-> None,
                            role_raw |-> ""]}
                     ELSE normalized
        kept == {r \in st.roles : ~(r.attorney = a.pk /\ r.party = p)}
        created == {[attorney |-> a.pk, party |-> p, role |-> nr.role,
                     date_action |-> nr.date_action,
                     role_raw |-> nr.role_raw] : nr \in new_roles}
    IN [attorneys |-> saved, roles |-> kept \cup created, orgs |-> orgs1,
        pk |-> a.pk]

\* for atty in party.get("attorneys", []): updated_attorneys.add(add_attorney(..))
RECURSIVE AddAttorneys(_, _, _, _, _)
AddAttorneys(st, attys, i, p, updated) ==
    IF i > Len(attys) THEN [st |-> st, updated |-> updated]
    ELSE LET r == add_attorney(st, attys[i], p)
         IN AddAttorneys([attorneys |-> r.attorneys, roles |-> r.roles,
                          orgs |-> r.orgs],
                         attys, i + 1, p, updated \cup {r.pk})

\* the dict carries a termination date or an attorney with a terminated role
DictHasTerminated(party) ==
    \/ party.date_terminated # None
    \/ \E i \in DOMAIN party.attorneys :
          \E nr \in normalize_attorney_roles(party.attorneys[i].roles) :
              nr.role \in TerminatedRoles

\* get_terminated_entities(d): the parties of the docket with a terminated
\* PartyType, and their attorneys in the docket that hold a terminated role
get_terminated_entities(pts, rs) ==
    LET d_parties == {pt.party : pt \in pts}
    IN [parties |-> {pt.party : pt \in {x \in pts : x.date_terminated # None}},
        attorneys |-> {r.attorney :
                         r \in {x \in rs :
                                  /\ x.party \in d_parties
                                  /\ \E y \in rs :
                                        /\ y.attorney = x.attorney
                                        /\ y.role \in TerminatedRoles}}]

\* the Role rows disassociate_extraneous_entities keeps
RolesKept(rs, attorneys_to_preserve, terminated_parties) ==
    {r \in rs : \/ r.attorney \in attorneys_to_preserve
                \/ r.party \in terminated_parties}

\* what the deletes of disassociate_extraneous_entities leave of the Party table
PartiesKept_DeletesOrphans(ps, pts) == {p \in ps : \E pt \in pts : pt.party = p.pk}

PartiesKept(ps, pts) == ps

\* the terminated entities of the docket that are preserved when the new
\* data has no termination marker
TerminatedToPreserve_None(has_terminated, pts, rs) ==
    [parties |-> {}, attorneys |-> {}]

TerminatedToPreserve(has_terminated, pts, rs) ==
    IF has_terminated THEN [parties |-> {}, attorneys |-> {}]
    ELSE get_terminated_entities(pts, rs)

\* the join rows of the docket when a call starts
RowsOfDocket == [party_types |-> party_types, roles |-> roles]

\* A mutation of NoParties: the empty list does not end the call.
NoParties_GoesOn(local_parties) == FALSE

\* if not parties:
NoParties(local_parties) == local_parties = <<>>

\* a call with an empty list: "if not parties: return" ends it before the
\* loop and before disassociate_extraneous_entities
ReturnNoParties ==
    /\ pa.pc # "loop"
    /\ pa.calls < MaxCalls
    /\ pa' = [PaIdle EXCEPT !.pc = "returned", !.calls = pa.calls + 1,
                            !.before = RowsOfDocket]
    /\ IF NoParties(<<>>)
       THEN UNCHANGED <<parties, party_types, roles, crim>>
       ELSE LET term == TerminatedToPreserve(FALSE, party_types, roles)
                pts1 == {pt \in party_types : pt.party \in term.parties}
            IN /\ party_types' = pts1
               /\ crim' = {c \in crim : \E pt \in pts1 : pt.pk = c.party_type}
               /\ roles' = RolesKept(roles, term.attorneys, term.parties)
               /\ parties' = PartiesKept(parties, pts1)
    /\ UNCHANGED <<attorneys, orgs>>
    /\ UNCHANGED <<metaVars, locatorVars, docVars, sq, cq, ap, pw, ew, ow, po>>

\* one turn of "for party in local_parties"; the first turn starts a call
MergeParty ==
    \E party \in PartyDicts :
        LET cur == IF pa.pc = "loop" THEN pa
                   ELSE [PaIdle EXCEPT !.pc = "loop", !.calls = pa.calls + 1,
                                        !.before = RowsOfDocket]
            ps == {p \in parties :
                     p.name = party.name
                     /\ \E pt \in party_types : pt.party = p.pk}
            made == [pk |-> MaxPk(parties) + 1, name |-> party.name]
            p == IF ps = {} THEN made ELSE EarliestCreated(ps)
            pts == {pt \in party_types :
                      pt.party = p.pk /\ pt.name = party.type}
            hol_o(old) == IF party.criminal_data # None
                          THEN Val(party.criminal_data).highest_offense_level_opening
                          ELSE old
            hol_t(old) == IF party.criminal_data # None
                          THEN Val(party.criminal_data).highest_offense_level_terminated
                          ELSE old
            updated(pt) == [pt EXCEPT
                              !.extra_info = party.extra_info,
                              !.date_terminated = party.date_terminated,
                              !.highest_offense_level_opening = hol_o(@),
                              !.highest_offense_level_terminated = hol_t(@)]
            new_pt == [pk |-> MaxPk(party_types) + 1, party |-> p.pk,
                       name |-> party.type,
                       extra_info |-> party.extra_info,
                       date_terminated |-> party.date_terminated,
                       highest_offense_level_opening |-> hol_o(""),
                       highest_offense_level_terminated |-> hol_t("")]
            pt == IF pts # {} THEN EarliestCreated(pts) ELSE new_pt
            pts1 == IF pts # {}
                    THEN {IF x \in pts THEN updated(x) ELSE x : x \in party_types}
                    ELSE party_types \cup {new_pt}
            cd == party.criminal_data
            counts == IF cd # None THEN Val(cd).counts ELSE {}
            complaints == IF cd # None THEN Val(cd).complaints ELSE {}
            crim1 == IF counts # {}
                     THEN {c \in crim : ~(c.party_type = pt.pk /\ c.kind = "count")}
                          \cup {[party_type |-> pt.pk, kind |-> "count",
                                 name |-> n] : n \in counts}
                     ELSE crim
            crim2 == IF complaints # {}
                     THEN {c \in crim1 : ~(c.party_type = pt.pk /\ c.kind = "complaint")}
                          \cup {[party_type |-> pt.pk, kind |-> "complaint",
                                 name |-> n] : n \in complaints}
                     ELSE crim1
            res == AddAttorneys([attorneys |-> attorneys, roles |-> roles,
                                 orgs |-> orgs],
                                party.attorneys, 1, p.pk, cur.updated_attorneys)
        IN /\ cur.calls <= MaxCalls
           /\ cur.n < MaxParties
           /\ ps = {} => Cardinality(parties) < MaxPartyRows
           /\ Cardinality(res.st.attorneys) <= MaxAttorneyRows
           /\ parties' = IF ps = {} THEN parties \cup {made} ELSE parties
           /\ party_types' = pts1
           /\ crim' = crim2
           /\ attorneys' = res.st.attorneys
           /\ roles' = res.st.roles
           /\ orgs' = res.st.orgs
           /\ pa' = [pc |-> "loop", calls |-> cur.calls, n |-> cur.n + 1,
                     names |-> cur.names \cup {party.name},
                     has_terminated |-> cur.has_terminated
                                          \/ DictHasTerminated(party),
                     updated_parties |-> cur.updated_parties \cup {p.pk},
                     updated_attorneys |-> res.updated,
                     before |-> cur.before]
           /\ UNCHANGED <<metaVars, locatorVars, docVars, sq, cq, ap, pw, ew, ow, po>>

\* disassociate_extraneous_entities(d, local_parties, updated_parties,
\* updated_attorneys), the last statement of the call
DisassociateExtraneous ==
    /\ pa.pc = "loop"
    /\ LET term == TerminatedToPreserve(pa.has_terminated, party_types, roles)
           parties_to_preserve == pa.updated_parties \cup term.parties
           attorneys_to_preserve == pa.updated_attorneys \cup term.attorneys
           pts1 == {pt \in party_types : pt.party \in parties_to_preserve}
       IN /\ party_types' = pts1
          /\ crim' = {c \in crim : \E pt \in pts1 : pt.pk = c.party_type}
          /\ roles' = RolesKept(roles, attorneys_to_preserve, term.parties)
          /\ parties' = PartiesKept(parties, pts1)
    /\ pa' = [pa EXCEPT !.pc = "done", !.n = 0, !.updated_parties = {},
                        !.updated_attorneys = {}]
    /\ UNCHANGED <<attorneys, orgs>>
    /\ UNCHANGED <<metaVars, locatorVars, docVars, sq, cq, ap, pw, ew, ow, po>>

PartiesInit == EmptyStore

PartiesNext == ReturnNoParties \/ MergeParty \/ DisassociateExtraneous

SpecParties == PartiesInit /\ [][PartiesNext]_vars

\* the name of the Party row pk
PartyName(pk) == (CHOOSE p \in parties : p.pk = pk).name

\* parties linked to the docket when the call started that the call's list
\* does not name
OmittedParties ==
    {pt.party : pt \in {x \in pa.before.party_types :
                           PartyName(x.party) \notin pa.names}}

\* omitted parties that were terminated on the docket when the call started
OmittedTerminated ==
    {pt.party : pt \in {x \in pa.before.party_types :
                           /\ x.date_terminated # None
                           /\ PartyName(x.party) \notin pa.names}}

\* C4: when the new party list carries no termination marker and omits a
\* party that was terminated on the docket, the PartyType and Role rows that
\* party had before the call are all still there after it.
C4_TerminatedPreserved ==
    (pa.pc = "done" /\ ~pa.has_terminated) =>
        \A X \in OmittedTerminated :
            /\ {pt \in pa.before.party_types : pt.party = X} \subseteq party_types
            /\ {r \in pa.before.roles : r.party = X} \subseteq roles

C4_Witness ==
    /\ pa.pc = "done"
    /\ ~pa.has_terminated
    /\ \E X \in OmittedTerminated :
          /\ \E r \in pa.before.roles : r.party = X
          /\ pa.before.party_types # party_types

\* C5: when the new party list carries a termination marker and omits a
\* party that was linked to the docket, no PartyType row and no Role row of
\* that party is left after the call.
C5_Original ==
    (pa.pc = "done" /\ pa.has_terminated) =>
        \A Y \in OmittedParties :
            /\ ~\E pt \in party_types : pt.party = Y
            /\ ~\E r \in roles : r.party = Y

\* C6: no step of add_parties_and_attorneys removes a Party row or an
\* Attorney row; an entity that lost its join rows stays as an orphan.
C6_NoEntityDeleted ==
    [][/\ \A p \in parties : p \in parties'
       /\ \A a \in attorneys : \E b \in attorneys' : b.pk = a.pk /\ b.name = a.name]_vars

C6_Witness ==
    /\ pa.pc = "done"
    /\ \E p \in parties : ~\E pt \in party_types : pt.party = p.pk
    /\ \E a \in attorneys : ~\E r \in roles : r.attorney = a.pk

(***************************************************************************)
(* Duplicate cleanup: keep_latest_rd_document, clean_duplicate_documents   *)
(*                                                                         *)
(* A RECAPDocument row is a record; date_created grows with pk.            *)
(***************************************************************************)
MaxDocs == 3

PACER_DOCUMENT == "PACER_DOCUMENT"
ATTACHMENT == "ATTACHMENT"

\* RECAPDocument(**fields) with the model's defaults
NewRD(pk, de, document_type, document_number, attachment_number, pacer_doc_id, description) ==
    [pk |-> pk, docket_entry |-> de, document_type |-> document_type,
     document_number |-> document_number,
     attachment_number |-> attachment_number, pacer_doc_id |-> pacer_doc_id,
     description |-> description, is_available |-> FALSE,
     filepath_local |-> "", page_count |-> None, file_size |-> None,
     acms_document_guid |-> ""]

\* queryset.alatest("date_created")
LatestCreated(rows) == CHOOSE r \in rows : \A o \in rows : o.pk <= r.pk

keep_latest_rd_document_any(queryset) == LatestCreated(queryset)

\* the row keep_latest_rd_document retains of a non-empty queryset
keep_latest_rd_document(queryset) ==
    LET rd_with_pdf_queryset ==
            {r \in queryset : r.is_available /\ r.filepath_local # ""}
    IN IF rd_with_pdf_queryset # {}
       THEN LatestCreated(rd_with_pdf_queryset)
       ELSE LatestCreated(queryset)

\* clean_duplicate_documents({"pacer_doc_id": pacer_doc_id}); alatest raises
\* DoesNotExist on an empty queryset, before anything is deleted
CleanDuplicateDocuments ==
    \E pacer_doc_id \in {"X", "Y"} :
        LET duplicate_rd_queryset ==
                {r \in rds : r.pacer_doc_id = pacer_doc_id}
            rd == keep_latest_rd_document(duplicate_rd_queryset)
        IN /\ IF duplicate_rd_queryset = {}
              THEN /\ rds' = rds
                   /\ kl' = [called |-> TRUE, params |-> pacer_doc_id,
                             before |-> rds, result |-> None]
              ELSE /\ rds' = (rds \ duplicate_rd_queryset) \cup {rd}
                   /\ kl' = [called |-> TRUE, params |-> pacer_doc_id,
                             before |-> rds, result |-> Some(rd.pk)]
           /\ UNCHANGED <<des, ids, dkt, ae, ma>>
           /\ UNCHANGED <<metaVars, locatorVars, partyVars, sq, cq, ap, pw, ew, ow, po>>

\* the documents a stored entry can hold: any of MaxDocs rows, each with
\* either external id, available or not, with or without a local file
StoredDocs(pk) ==
    { [NewRD(pk, 1, PACER_DOCUMENT, "1", None, id, "") EXCEPT
          !.is_available = av, !.filepath_local = fp] :
      id \in {"X", "Y"}, av \in BOOLEAN, fp \in {"", "recap/f.pdf"} }

KeepLatestInit ==
    /\ d = BlankDocket
    /\ md = MdIdle
    /\ dockets = {}
    /\ fd = FdIdle
    /\ parties = {}
    /\ attorneys = {}
    /\ party_types = {}
    /\ roles = {}
    /\ crim = {}
    /\ orgs = [rows |-> {}, assoc |-> {}]
    /\ pa = PaIdle
    /\ des = {[pk |-> 1, entry_number |-> Some(1), date_filed |-> Some(1),
               description |-> "", pacer_sequence_number |-> None,
               recap_sequence_number |-> <<1, 0, 0, 1>>]}
    /\ \E present \in SUBSET (1..MaxDocs) :
          \E pick \in [present -> UNION {StoredDocs(k) : k \in 1..MaxDocs}] :
              /\ \A k \in present : pick[k].pk = k
              /\ rds = {pick[k] : k \in present}
    /\ ids = [de |-> 2, rd |-> MaxDocs + 1]
    /\ dkt = DktInit
    /\ kl = KlIdle
    /\ ae = AeIdle
    /\ ma = MaIdle
    /\ sq = SqIdle
    /\ cq = CqIdle
    /\ ap = ApIdle
    /\ pw = PwIdle
    /\ ew = EwIdle
    /\ ow = OwIdle
    /\ po = PoIdle

KeepLatestNext == CleanDuplicateDocuments

SpecKeepLatest == KeepLatestInit /\ [][KeepLatestNext]_vars

\* the documents the last cleanup call was applied to
CleanedSet == {r \in kl.before : r.pacer_doc_id = kl.params}

\* C10: applied to a non-empty set of documents, the cleanup leaves exactly
\* one of them, the newest available one with a local file if there is one
\* and the newest overall otherwise; the rest of the set is deleted and
\* documents outside the set are untouched.
C10_KeepLatest ==
    (kl.called /\ CleanedSet # {}) =>
        LET with_file == {r \in CleanedSet :
                            r.is_available /\ r.filepath_local # ""}
            pool == IF with_file # {} THEN with_file ELSE CleanedSet
        IN /\ \E kept \in pool :
                 /\ \A o \in pool : o.pk <= kept.pk
                 /\ rds \cap CleanedSet = {kept}
                 /\ kl.result = Some(kept.pk)
           /\ rds \ CleanedSet = kl.before \ CleanedSet

C10_Witness ==
    /\ kl.called
    /\ Cardinality(CleanedSet) = 3
    /\ \E r \in rds : /\ r.pk = 1
                       /\ r.is_available
                       /\ r.filepath_local # ""
                       /\ kl.result = Some(1)

(***************************************************************************)
(* Entry & Document Reconciler: add_docket_entries                         *)
(*                                                                         *)
(* Filed dates are plain dates, so localize_date_and_time returns the      *)
(* date and no time and time_filed stays null; no tags are passed and no   *)
(* dict carries an "attachments" key.  A dict's document_number is the     *)
(* scraped string, "" for an unnumbered entry.                             *)
(***************************************************************************)
MaxEntries == 2
MaxDicts == 2
MaxRepeats == 1

\* int(document_number) raises no TypeError or ValueError
IsInt(s) == s \in {"1", "2", "3"}

\* int(document_number)
ToInt(s) == IF s = "1" THEN 1 ELSE IF s = "2" THEN 2 ELSE 3

ENTERED_RAW == "A (Entered: 01/01/2014)"

\* DocketEntry(docket=d, entry_number=.., pacer_sequence_number=..)
NewDE(pk, entry_number, pacer_sequence_number) ==
    [pk |-> pk, entry_number |-> entry_number, date_filed |-> None,
     description |-> "", pacer_sequence_number |-> pacer_sequence_number,
     recap_sequence_number |-> <<>>]

\* a scraped unnumbered entry
UDict(date_filed, description, short_description, pacer_doc_id) ==
    [date_filed |-> date_filed, document_number |-> "",
     description |-> description, short_description |-> short_description,
     pacer_doc_id |-> pacer_doc_id, pacer_seq_no |-> None,
     attachment_number |-> None]

\* a scraped numbered entry
NDict(document_number, date_filed, description, short_description, pacer_doc_id, pacer_seq_no, attachment_number) ==
    [date_filed |-> date_filed, document_number |-> document_number,
     description |-> description, short_description |-> short_description,
     pacer_doc_id |-> pacer_doc_id, pacer_seq_no |-> pacer_seq_no,
     attachment_number |-> attachment_number]

EntryDicts ==
    { UDict(Some(1), "A", "", ""),
      UDict(Some(1), "A", "S", ""),
      UDict(Some(1), "", "S", ""),
      UDict(Some(1), "B", "S", ""),
      UDict(Some(1), ENTERED_RAW, "T", ""),
      UDict(Some(1), "", "", ""),
      UDict(Some(2), "B", "", "X"),
      UDict(None, "A", "", ""),
      NDict("1", Some(1), "A", "", "X", None, None),
      NDict("1", Some(1), "", "S", "Y", Some(5), None),
      NDict("1", Some(2), "B", "", "X", Some(6), None),
      NDict("1", Some(1), "", "", "X", None, Some(1)),
      NDict("1", Some(1), "A", "S", "Y", None, Some(1)),
      NDict("1", Some(1), "", "S", "", None, Some(2)),
      NDict("2", Some(1), "A", "", "", None, None),
      NDict("2", Some(2), "", "S", "Y", Some(5), None) }

EntryLists ==
    UNION {[1..n -> EntryDicts] : n \in 0..MaxEntries}

\* docket_entries = [de for de in docket_entries if de.get("date_filed")]
WithDateFiled(L) == SelectSeq(L, LAMBDA e : e.date_filed # None)

Reverse(L) == [i \in 1..Len(L) |-> L[Len(L) + 1 - i]]

get_order_of_docket_Numbers(L) ==
    IF \E i \in 1..(Len(L) - 1) :
          /\ IsInt(L[i].document_number)
          /\ IsInt(L[i + 1].document_number)
          /\ ToInt(L[i].document_number) > ToInt(L[i + 1].document_number)
    THEN "desc" ELSE "asc"

\* get_order_of_docket: the first adjacent pair of unequal integers decides
get_order_of_docket(L) ==
    LET pairs == {i \in 1..(Len(L) - 1) :
                    /\ IsInt(L[i].document_number)
                    /\ IsInt(L[i + 1].document_number)
                    /\ ToInt(L[i].document_number)
                         # ToInt(L[i + 1].document_number)}
    IN IF pairs = {} THEN "unknown"
       ELSE LET i == CHOOSE k \in pairs : \A o \in pairs : k <= o
            IN IF ToInt(L[i].document_number) < ToInt(L[i + 1].document_number)
               THEN "asc" ELSE "desc"

\* "%s.%03d" % (date_filed.isoformat(), recap_sequence_index)
make_recap_sequence_number(date_filed, recap_sequence_index) ==
    <<date_filed, (recap_sequence_index \div 100) % 10,
      (recap_sequence_index \div 10) % 10, recap_sequence_index % 10>>

recap_sequence_index_Position(L, i) == i

RECURSIVE recap_sequence_index(_, _)
recap_sequence_index(L, i) ==
    IF i > 1 /\ L[i].date_filed = L[i - 1].date_filed
    THEN recap_sequence_index(L, i - 1) + 1
    ELSE 1

\* calculate_recap_sequence_numbers: the list in ascending order, each dict
\* with its recap_sequence_number
calculate_recap_sequence_numbers(L) ==
    LET asc == IF get_order_of_docket(L) = "desc" THEN Reverse(L) ELSE L
    IN [i \in 1..Len(asc) |->
          asc[i] @@ [recap_sequence_number |->
                       make_recap_sequence_number(Val(asc[i].date_filed),
                                                  recap_sequence_index(asc, i))]]

\* re.sub(r"(.*) \(Entered: .*\)$", r"\1", desc)
normalize_long_description(desc) ==
    IF desc = ENTERED_RAW THEN "A" ELSE desc

\* deleting a docket entry deletes its documents with it
WithEntry(rows, entries) ==
    {r \in rows : \E x \in entries : x.pk = r.docket_entry}

SaveOutcome_NoValidation(rows, row) == "ok"

\* RECAPDocument.save: the integrity rules of the Document table.  A second
\* MAIN document of an entry is a ValidationError; a second attachment with
\* the same index is rejected by the layer dkt.unique_raises names.
SaveOutcome(rows, row) ==
    LET others == {o \in rows : o.pk # row.pk
                                /\ o.docket_entry = row.docket_entry}
    IN IF row.document_type = ATTACHMENT /\ row.attachment_number = None
       THEN "ValidationError"
       ELSE IF /\ row.document_type = PACER_DOCUMENT
               /\ \E o \in others : o.document_type = PACER_DOCUMENT
       THEN "ValidationError"
       ELSE IF /\ row.document_type = ATTACHMENT
               /\ \E o \in others :
                     /\ o.document_type = ATTACHMENT
                     /\ o.attachment_number = row.attachment_number
       THEN IF dkt.unique_raises THEN "IntegrityError" ELSE "ValidationError"
       ELSE "ok"

\* the table after row is inserted or updated
Saved(rows, row) == {o \in rows : o.pk # row.pk} \cup {row}

\* add_create_docket_entry_transaction on the tables st
\* A mutation of add_create_docket_entry_transaction that never looks for
\* an existing entry and always creates one.
add_create_docket_entry_transaction_AlwaysCreates(st, e) ==
    LET made == NewDE(st.ids.de, Some(ToInt(e.document_number)), e.pacer_seq_no)
    IN  [st EXCEPT !.des = @ \cup {made}, !.ids.de = @ + 1, !.de = made,
                   !.de_created = TRUE, !.found = TRUE]

add_create_docket_entry_transaction(st, e) ==
    LET n == Some(ToInt(e.document_number))
        pacer_seq_no == e.pacer_seq_no
        got == {x \in st.des :
                  /\ x.entry_number = n
                  /\ pacer_seq_no # None
                       => x.pacer_sequence_number = pacer_seq_no}
        null_de_queryset == {x \in st.des :
                               /\ x.entry_number = n
                               /\ x.pacer_sequence_number = None}
        made == NewDE(st.ids.de, n, pacer_seq_no)
        create == [st EXCEPT !.des = @ \cup {made}, !.ids.de = @ + 1,
                             !.de = made, !.de_created = TRUE,
                             !.found = TRUE]
        keep(de, gone) ==
            [st EXCEPT !.des = @ \ gone,
                       !.rds = WithEntry(@, st.des \ gone),
                       !.de = de, !.de_created = FALSE, !.found = TRUE]
        adopt_null == LET de == LatestCreated(null_de_queryset)
                      IN keep(de, null_de_queryset \ {de})
    IN IF Cardinality(got) = 1
       THEN keep(CHOOSE x \in got : TRUE, {})
       ELSE IF got = {}
       THEN IF pacer_seq_no # None /\ null_de_queryset # {}
            THEN adopt_null ELSE create
       ELSE IF pacer_seq_no = None
       THEN [st EXCEPT !.found = FALSE]
       ELSE \* the second get repeats the lookup with the sequence number
            IF Cardinality(got) = 1
            THEN keep(CHOOSE x \in got : TRUE, null_de_queryset)
            ELSE IF got = {}
            THEN IF null_de_queryset # {} THEN adopt_null ELSE create
            ELSE LET de == LatestCreated(got)
                 IN keep(de, (got \ {de}) \cup null_de_queryset)

\* merge_unnumbered_docket_entries(des, docket_entry)
merge_unnumbered_docket_entries(st, matches, e) ==
    LET matched_entries_queryset ==
            {x \in matches : x.description = e.description
                             \/ x.description = ""}
        pool == IF matched_entries_queryset # {}
                THEN matched_entries_queryset ELSE matches
        winner == EarliestCreated(pool)
        gone == pool \ {winner}
    IN [st EXCEPT !.des = @ \ gone, !.rds = WithEntry(@, st.des \ gone),
                  !.de = winner, !.de_created = FALSE, !.found = TRUE]

\* the rows of the unnumbered-entry query: one per entry, or one per
\* (entry, document) pair when the query joins recap_documents
UnnumberedRows(st, e) ==
    LET base == {x \in st.des : /\ x.date_filed = e.date_filed
                                /\ x.entry_number = None}
        by_long(x) == e.description # "" /\ x.description = e.description
        docs(x) == {r \in st.rds : r.docket_entry = x.pk}
    IN IF e.short_description = ""
       THEN {<<x.pk, 0>> : x \in {y \in base :
                                    e.description # "" => by_long(y)}}
       ELSE {<<x.pk, 0>> : x \in {y \in base : docs(y) = {} /\ by_long(y)}}
            \cup
            {<<r.docket_entry, r.pk>> :
                r \in {q \in st.rds :
                         \E x \in base :
                            /\ q.docket_entry = x.pk
                            /\ by_long(x)
                                 \/ q.description = e.short_description}}

\* get_or_make_docket_entry; e is already normalized
get_or_make_docket_entry(st, e) ==
    IF e.document_number # ""
    THEN add_create_docket_entry_transaction(st, e)
    ELSE LET rows == UnnumberedRows(st, e)
             matches == {x \in st.des : \E row \in rows : row[1] = x.pk}
         IN IF rows = {}
            THEN [st EXCEPT !.de = NewDE(st.ids.de, None, None),
                            !.de_created = TRUE, !.found = TRUE]
            ELSE IF Cardinality(rows) = 1
            THEN [st EXCEPT !.de = CHOOSE x \in matches : TRUE,
                            !.de_created = FALSE, !.found = TRUE]
            ELSE merge_unnumbered_docket_entries(st, matches, e)

\* RECAPDocument.objects.filter(**params); an absent key is None
FilterRDs(rows, params) ==
    {r \in rows :
       /\ r.docket_entry = params.docket_entry
       /\ params.description # None => r.description = Val(params.description)
       /\ params.document_type # None
            => r.document_type = Val(params.document_type)
       /\ params.attachment_number # None
            => r.attachment_number = params.attachment_number
       /\ params.pacer_doc_id # None
            => r.pacer_doc_id = Val(params.pacer_doc_id)}

\* the next dict is skipped: "continue"
Continue(st) == st

\* the document part of one turn of the loop, after de was saved
MergeDocument(st, e) ==
    LET de == st.de
        created == st.de_created
        appellate == dkt.appellate
        appellate_rd_att_exists ==
            /\ ~created
            /\ appellate
            /\ \E r \in st.rds : /\ r.docket_entry = de.pk
                                 /\ r.document_type = ATTACHMENT
        is_att == e.attachment_number # None /\ e.attachment_number # Some(0)
        params ==
            [docket_entry |-> de.pk,
             description |-> IF e.document_number = ""
                                /\ e.short_description # ""
                             THEN Some(e.short_description) ELSE None,
             document_type |-> IF is_att \/ appellate_rd_att_exists
                               THEN Some(ATTACHMENT)
                               ELSE Some(PACER_DOCUMENT),
             attachment_number |-> IF is_att THEN e.attachment_number
                                   ELSE None,
             pacer_doc_id |-> IF appellate_rd_att_exists
                              THEN Some(e.pacer_doc_id) ELSE None]
        get_params ==
            [params EXCEPT
               !.pacer_doc_id = IF ~created /\ ~appellate
                                THEN Some(e.pacer_doc_id) ELSE @,
               !.document_type = IF ~created THEN None ELSE @]
        got == FilterRDs(st.rds, get_params)
        bad_id == FilterRDs(st.rds, params)
        dupes == FilterRDs(st.rds, params)
        made == NewRD(st.ids.rd, de.pk, Val(params.document_type),
                      e.document_number, params.attachment_number,
                      e.pacer_doc_id,
                      IF params.description # None
                      THEN Val(params.description) ELSE "")
        \* what follows once rd is in hand, on the tables s
        update(s, rd0) ==
            LET rd1 == IF e.pacer_doc_id # ""
                       THEN [rd0 EXCEPT !.pacer_doc_id = e.pacer_doc_id]
                       ELSE rd0
                description == e.short_description
                rd_qs == {r \in s.rds : /\ r.docket_entry = de.pk
                                        /\ r.document_type = PACER_DOCUMENT}
                rd_pd == EarliestCreated(rd_qs)
                rd_pd1 == [rd_pd EXCEPT !.description = description]
                rd2 == [rd1 EXCEPT !.document_number = e.document_number]
                finish(t, rd) ==
                    LET out == SaveOutcome(t.rds, rd)
                    IN IF out = "ok" THEN [t EXCEPT !.rds = Saved(@, rd)]
                       ELSE IF out = "ValidationError" THEN Continue(t)
                       ELSE [t EXCEPT !.status = "raised"]
            IN IF rd1.document_type = PACER_DOCUMENT /\ description # ""
               THEN finish(s, [rd2 EXCEPT !.description = description])
               ELSE IF description # "" /\ rd_qs # {}
               THEN IF rd_pd.attachment_number # None THEN Continue(s)
                    ELSE IF rd_pd.description # description
                    THEN LET out == SaveOutcome(s.rds, rd_pd1)
                         IN IF out = "ok"
                            THEN finish([s EXCEPT !.rds = Saved(@, rd_pd1)], rd2)
                            ELSE IF out = "ValidationError" THEN Continue(s)
                            ELSE [s EXCEPT !.status = "raised"]
                    ELSE finish(s, rd2)
               ELSE finish(s, rd2)
        create ==
            LET out == SaveOutcome(st.rds, made)
            IN IF out = "ok"
               THEN update([st EXCEPT !.rds = @ \cup {made}, !.ids.rd = @ + 1,
                                      !.rds_created = @ \cup {made.pk}],
                           made)
               ELSE IF out = "ValidationError" THEN Continue(st)
               ELSE [st EXCEPT !.status = "raised"]
        cleaned(s) ==
            LET rd == keep_latest_rd_document(dupes)
            IN IF dupes = {} THEN [s EXCEPT !.status = "raised"]
               ELSE update([s EXCEPT !.rds = (@ \ dupes) \cup {rd}], rd)
    IN IF Cardinality(got) = 1
       THEN LET rd == CHOOSE r \in got : TRUE
            IN update([st EXCEPT !.rds_updated = @ \cup {rd.pk}], rd)
       ELSE IF got = {}
       THEN IF ~created /\ ~appellate
            THEN IF Cardinality(bad_id) = 1
                 THEN update(st, CHOOSE r \in bad_id : TRUE)
                 ELSE IF bad_id = {} THEN create
                 ELSE cleaned(st)
            ELSE create
       ELSE IF params.document_type = Some(ATTACHMENT) THEN Continue(st)
            ELSE cleaned(st)

\* one turn of "for docket_entry in docket_entries"
MergeEntry(st, raw, do_not_update_existing) ==
    LET e == IF raw.document_number = ""
             THEN [raw EXCEPT !.description = normalize_long_description(@)]
             ELSE raw
        s1 == get_or_make_docket_entry(st, e)
        de == [s1.de EXCEPT
                 !.description = OrStr(e.description, @),
                 !.date_filed = e.date_filed,
                 !.pacer_sequence_number =
                     IF e.pacer_seq_no # None THEN e.pacer_seq_no ELSE @,
                 !.recap_sequence_number = e.recap_sequence_number]
        s2 == [s1 EXCEPT !.des_returned = @ \cup {de.pk}]
        s3 == [s2 EXCEPT
                 !.des = Saved(@, de),
                 !.de = de,
                 !.ids.de = IF de.pk = @ THEN @ + 1 ELSE @,
                 !.content_updated = @ \/ s1.de_created,
                 !.des_created = IF s1.de_created THEN @ \cup {de.pk} ELSE @,
                 !.known_filing_dates =
                     IF s1.de_created THEN @ \cup {Val(de.date_filed)} ELSE @]
    IN IF ~s1.found THEN Continue(s1)
       ELSE IF do_not_update_existing /\ ~s1.de_created
       THEN [s2 EXCEPT !.status = "returned"]
       ELSE MergeDocument(s3, e)

RECURSIVE MergeEntries(_, _, _, _)
MergeEntries(st, L, i, do_not_update_existing) ==
    IF i > Len(L) \/ st.status # "loop" THEN st
    ELSE MergeEntries(MergeEntry(st, L[i], do_not_update_existing), L, i + 1,
                      do_not_update_existing)

MaxOf(S) == CHOOSE m \in S : \A o \in S : o <= m

\* add_docket_entries(d, docket_entries, do_not_update_existing=..)
add_docket_entries(docket_entries, do_not_update_existing) ==
    LET L == calculate_recap_sequence_numbers(WithDateFiled(docket_entries))
        st0 == [des |-> des, rds |-> rds, ids |-> ids,
                de |-> NewDE(0, None, None), de_created |-> FALSE,
                found |-> FALSE, status |-> "loop",
                des_returned |-> {}, des_created |-> {},
                rds_updated |-> {}, rds_created |-> {},
                content_updated |-> FALSE,
                known_filing_dates |-> dkt.date_last_filing]
        st == MergeEntries(st0, L, 1, do_not_update_existing)
    IN [st EXCEPT !.status = IF @ = "loop" THEN "done" ELSE @]

\* a call whose docket_entries is one of lists
AddDocketEntriesWithin(lists, max_dicts) ==
    \E docket_entries \in lists, do_not_update_existing \in BOOLEAN :
        LET repeat == /\ ae.called
                      /\ docket_entries = ae.docket_entries
                      /\ do_not_update_existing = ae.do_not_update_existing
            st == add_docket_entries(docket_entries, do_not_update_existing)
        IN /\ IF repeat THEN ae.repeats < MaxRepeats
              ELSE ae.dicts + Len(docket_entries) <= max_dicts
           /\ des' = st.des
           /\ rds' = st.rds
           /\ ids' = st.ids
           /\ dkt' = IF st.status = "done" /\ st.known_filing_dates # {}
                     THEN [dkt EXCEPT !.date_last_filing =
                                         {MaxOf(st.known_filing_dates)}]
                     ELSE dkt
           /\ ae' = [called |-> TRUE,
                     docket_entries |-> docket_entries,
                     do_not_update_existing |-> do_not_update_existing,
                     repeats |-> IF repeat THEN ae.repeats + 1 ELSE 0,
                     dicts |-> IF repeat THEN ae.dicts
                               ELSE ae.dicts + Len(docket_entries),
                     before |-> [des |-> des, rds |-> rds],
                     status |-> st.status,
                     des_created |-> st.des_created,
                     rds_created |-> st.rds_created,
                     content_updated |-> st.content_updated]
           /\ UNCHANGED <<kl, ma>>
           /\ UNCHANGED <<metaVars, locatorVars, partyVars, sq, cq, ap, pw, ew, ow, po>>

AddDocketEntriesFrom(lists) == AddDocketEntriesWithin(lists, MaxDicts)

AddDocketEntries == AddDocketEntriesFrom(EntryLists)

EntriesInit ==
    /\ d = BlankDocket
    /\ md = MdIdle
    /\ dockets = {}
    /\ fd = FdIdle
    /\ parties = {}
    /\ attorneys = {}
    /\ party_types = {}
    /\ roles = {}
    /\ crim = {}
    /\ orgs = [rows |-> {}, assoc |-> {}]
    /\ pa = PaIdle
    /\ des = {}
    /\ rds = {}
    /\ ids = [de |-> 1, rd |-> 1]
    /\ \E appellate, unique_raises \in BOOLEAN :
          dkt = [DktInit EXCEPT !.appellate = appellate,
                                !.unique_raises = unique_raises]
    /\ kl = KlIdle
    /\ ae = AeIdle
    /\ ma = MaIdle
    /\ sq = SqIdle
    /\ cq = CqIdle
    /\ ap = ApIdle
    /\ pw = PwIdle
    /\ ew = EwIdle
    /\ ow = OwIdle
    /\ po = PoIdle

EntriesNext == AddDocketEntries

SpecEntries == EntriesInit /\ [][EntriesNext]_vars

\* the primary keys of a table
Pks(rows) == {r.pk : r \in rows}

\* C1: a second run of add_docket_entries with the same list leaves the
\* same DocketEntry and RECAPDocument rows as the first run left, creates no
\* entry and no document, and reports content_updated = false.
C1_Idempotent ==
    (ae.called /\ ae.repeats > 0) =>
        /\ Pks(des) = Pks(ae.before.des)
        /\ Pks(rds) = Pks(ae.before.rds)
        /\ ae.des_created = {}
        /\ ae.rds_created = {}
        /\ ~ae.content_updated

\* The rows of the docket with entry number n.
EntriesNumbered(n) == {y \in des : y.entry_number = n}

\* The last call carried the numbered dict e with an external sequence
\* number and a filing date, and row x was stored before the call with e's
\* entry number and no sequence number.
C29_Case(e, x) ==
    /\ ae.called
    /\ e.document_number # ""
    /\ e.pacer_seq_no # None
    /\ e.date_filed # None
    /\ x \in ae.before.des
    /\ x.entry_number = Some(ToInt(e.document_number))
    /\ x.pacer_sequence_number = None

\* The stored row x was adopted for e: it is the only row with its entry
\* number, it carries e's sequence number and it was not reported as created.
C29_Adopted(e, x) ==
    /\ EntriesNumbered(x.entry_number) = {y \in des : y.pk = x.pk}
    /\ \A y \in EntriesNumbered(x.entry_number) :
          y.pacer_sequence_number = e.pacer_seq_no
    /\ x.pk \notin ae.des_created

\* C29 as stated: a numbered entry stored with a null external sequence
\* number and later merged with a sequence number is adopted in place by
\* add_docket_entries.
C29_Original ==
    \A i \in DOMAIN ae.docket_entries :
        \A x \in ae.before.des :
            C29_Case(ae.docket_entries[i], x)
                => C29_Adopted(ae.docket_entries[i], x)

\* C29: when add_docket_entries runs without do_not_update_existing and
\* its list names the entry number once, a numbered entry stored with a null
\* external sequence number is adopted in place: one row for the entry
\* number, with the stored primary key and the incoming sequence number, not
\* reported as created.
C29_AdoptedInPlace ==
    \A i \in DOMAIN ae.docket_entries :
        \A x \in ae.before.des :
            (/\ C29_Case(ae.docket_entries[i], x)
             /\ ~ae.do_not_update_existing
             /\ \A j \in DOMAIN ae.docket_entries :
                   j # i => ae.docket_entries[j].document_number
                              # ae.docket_entries[i].document_number)
            => C29_Adopted(ae.docket_entries[i], x)

\* A call without the flag has adopted a row stored without sequence number.
C29_Witness ==
    \E i \in DOMAIN ae.docket_entries :
        \E x \in ae.before.des :
            /\ C29_Case(ae.docket_entries[i], x)
            /\ ~ae.do_not_update_existing
            /\ Len(ae.docket_entries) = 1
            /\ C29_Adopted(ae.docket_entries[i], x)
            /\ \E y \in des : y.pk = x.pk /\ y.pacer_sequence_number = Some(5)

(***************************************************************************)
(* Attachment Page Merger: merge_attachment_page_data                      *)
(*                                                                         *)
(* The court holds the one docket dkt, so the court filter of the main     *)
(* lookup is the whole RECAPDocument table.  main is the in-memory         *)
(* main_rd object, which later saves of the same row do not refresh.  The  *)
(* processing queue holds no failed PDF, so process_orphan_documents       *)
(* re-submits nothing.                                                     *)
(***************************************************************************)
MaxAttachments == 2
MaxAttachCalls == 2
MaxAttachDicts == 2

LONG_NUMBER == "00801234567"

\* cl.corpus_importer.utils.is_long_appellate_document_number
is_long_appellate_document_number(document_number) ==
    document_number = LONG_NUMBER

\* cl.lib.filesizes.convert_size_to_bytes("1 KB")
convert_size_to_bytes(file_size_str) == 1024

\* one dict of the attachment page; has_page_count says whether the
\* "page_count" key is there, an absent acms_document_guid is None
AttDict(attachment_number, pacer_doc_id, description, has_page_count, page_count, file_size_bytes, file_size_str, acms_document_guid) ==
    [attachment_number |-> attachment_number, pacer_doc_id |-> pacer_doc_id,
     description |-> description, has_page_count |-> has_page_count,
     page_count |-> page_count, file_size_bytes |-> file_size_bytes,
     file_size_str |-> file_size_str,
     acms_document_guid |-> acms_document_guid]

AttachmentDicts ==
    { AttDict(Some(0), "X", "", FALSE, None, None, "", None),
      AttDict(Some(0), "X", "lead", TRUE, None, None, "", None),
      AttDict(Some(1), "X", "att 1", TRUE, Some(5), None, "", None),
      AttDict(Some(1), "Y", "att 1", TRUE, Some(5), Some(100), "", None),
      AttDict(Some(2), "Y", "att 2", TRUE, None, None, "", None),
      AttDict(Some(2), "Y", "", TRUE, Some(7), None, "1 KB", None),
      AttDict(Some(0), "Y", "", TRUE, Some(5), None, "", None),
      AttDict(None, "Y", "att", TRUE, Some(5), None, "", None),
      AttDict(Some(1), "", "sealed", TRUE, Some(5), None, "", None),
      AttDict(Some(0), "X", "acms 0", TRUE, Some(5), None, "", Some("g0")),
      AttDict(Some(1), "X", "acms 1", TRUE, Some(5), None, "", Some("g1")),
      AttDict(Some(2), "X", "acms 2", TRUE, Some(5), None, "", Some("g2")) }

AttachmentLists ==
    UNION {[1..n -> AttachmentDicts] : n \in 0..MaxAttachments}

\* pacer_case_id, whether document_number is passed, text, debug and
\* is_acms_attachment of a call
CallProfiles ==
    { [pacer_case_id |-> Some("c1"), with_number |-> TRUE,
       text |-> Some("html"), debug |-> FALSE, is_acms_attachment |-> FALSE],
      [pacer_case_id |-> None, with_number |-> FALSE,
       text |-> None, debug |-> FALSE, is_acms_attachment |-> FALSE],
      [pacer_case_id |-> Some("c1"), with_number |-> FALSE,
       text |-> Some("json"), debug |-> FALSE, is_acms_attachment |-> TRUE],
      [pacer_case_id |-> Some("c1"), with_number |-> TRUE,
       text |-> Some("html"), debug |-> TRUE, is_acms_attachment |-> FALSE] }

\* RECAPDocument.objects.filter(pacer_doc_id=.., docket_entry__docket__court=..
\* [, docket_entry__docket__pacer_case_id=..])
MainMatches(rows, pacer_doc_id, pacer_case_id) ==
    {r \in rows :
       /\ r.pacer_doc_id = pacer_doc_id
       /\ pacer_case_id # None => dkt.pacer_case_id = Val(pacer_case_id)}

Raise(s, exc) == [s EXCEPT !.status = exc]

\* rd.asave() outside any try: a failed save reaches the caller
SaveOrRaise(s, rd) ==
    LET out == SaveOutcome(s.rds, rd)
    IN IF out = "ok"
       THEN [s EXCEPT !.rds = Saved(@, rd),
                      !.ids.rd = IF rd.pk = @ THEN @ + 1 ELSE @]
       ELSE Raise(s, out)

\* the main document was found through the dict a: turn it into an
\* attachment unless a is attachment 0
AdoptMain(s, m, a) ==
    IF a.attachment_number # Some(0)
    THEN LET m1 == [m EXCEPT !.attachment_number = a.attachment_number,
                             !.document_type = ATTACHMENT]
             t == SaveOrRaise(s, m1)
         IN IF t.status # "run" THEN t
            ELSE [t EXCEPT !.main = m1, !.found = TRUE,
                           !.migrated_description = m.description]
    ELSE [s EXCEPT !.main = m, !.found = TRUE]

\* the loop of the DoesNotExist handler: look the main document up by the
\* external ids of the attachment dicts
RECURSIVE FindMainByAttachment(_, _, _, _)
FindMainByAttachment(s, args, i, pacer_doc_id) ==
    IF i > Len(args.attachment_dicts) THEN s
    ELSE LET a == args.attachment_dicts[i]
             id == IF a.pacer_doc_id # "" THEN a.pacer_doc_id
                   ELSE pacer_doc_id
             got == MainMatches(s.rds, id, args.pacer_case_id)
         IN IF Cardinality(got) = 1
            THEN AdoptMain(s, CHOOSE r \in got : TRUE, a)
            ELSE IF got = {}
            THEN FindMainByAttachment(s, args, i + 1, id)
            ELSE IF args.pacer_case_id # None
            THEN LET kept == keep_latest_rd_document(got)
                 IN AdoptMain([s EXCEPT !.rds = (@ \ got) \cup {kept}],
                              kept, a)
            ELSE Raise(s, "MultipleObjectsReturned")

\* lines 1776-1797: the main document the handler found was turned into an
\* attachment, so a new main document takes its place
CreateMain(t, args) ==
    LET rd == NewRD(t.ids.rd, t.main.docket_entry, PACER_DOCUMENT,
                    t.main.document_number, None, args.pacer_doc_id,
                    t.migrated_description)
    IN IF t.status # "run" THEN t
       ELSE IF ~t.found THEN Raise(t, "DoesNotExist")
       ELSE SaveOrRaise([t EXCEPT !.created = @ \cup {rd.pk},
                                  !.affected = @ \cup {rd.pk}], rd)

\* lines 1700-1797: resolve main_rd; first is the row afirst() returns
ResolveMain(s, args, first) ==
    LET got == MainMatches(s.rds, args.pacer_doc_id, args.pacer_case_id)
    IN IF args.is_acms_attachment
       THEN IF got = {} THEN Raise(s, "AttributeError")
            ELSE [s EXCEPT !.main = first, !.found = TRUE]
       ELSE IF Cardinality(got) = 1
       THEN [s EXCEPT !.main = CHOOSE r \in got : TRUE, !.found = TRUE]
       ELSE IF got # {}
       THEN IF args.pacer_case_id # None
            THEN LET kept == keep_latest_rd_document(got)
                 IN [s EXCEPT !.rds = (@ \ got) \cup {kept},
                              !.main = kept, !.found = TRUE]
            ELSE Raise(s, "MultipleObjectsReturned")
       ELSE CHOOSE r \in
                {CreateMain(t, args) :
                   t \in {FindMainByAttachment(s, args, 1,
                                               args.pacer_doc_id)}} : TRUE

\* the description of the entry's main document, "" if there is none or
\* more than one
OldMainDescription(rows, de) ==
    LET mains == {r \in rows : /\ r.docket_entry = de
                               /\ r.document_type = PACER_DOCUMENT}
    IN IF Cardinality(mains) = 1 THEN (CHOOSE r \in mains : TRUE).description
       ELSE ""

\* lines 1949-1951: page_count is set only if it is blank
SetPageCount(page_count, a) ==
    IF page_count = None /\ a.page_count # None THEN a.page_count
    ELSE page_count

\* A mutation of SetFileSize: the size parsed from file_size_str replaces a
\* size that is already known.
SetFileSize_StrOverwrites(file_size, a) ==
    IF a.file_size_bytes # None THEN a.file_size_bytes
    ELSE IF a.file_size_str # ""
    THEN Some(convert_size_to_bytes(a.file_size_str))
    ELSE file_size

\* lines 1952-1963: file_size_bytes always wins; file_size_str is used only
\* if file_size is blank
SetFileSize(file_size, a) ==
    IF a.file_size_bytes # None THEN a.file_size_bytes
    ELSE IF file_size = None /\ a.file_size_str # ""
    THEN Some(convert_size_to_bytes(a.file_size_str))
    ELSE file_size

\* lines 1933-1964: the updates every attachment gets, then rd.asave()
UpdateAndSave(s, rd0, a, args, document_number, is_main) ==
    LET long == dkt.appellate
                /\ is_long_appellate_document_number(document_number)
        rd1 == [rd0 EXCEPT
                  !.description =
                      IF a.description # "" /\ rd0.document_type = ATTACHMENT
                      THEN a.description ELSE @,
                  !.pacer_doc_id = a.pacer_doc_id,
                  !.document_number =
                      IF long THEN args.pacer_doc_id ELSE @,
                  !.page_count = SetPageCount(@, a),
                  !.file_size = SetFileSize(@, a)]
        t == [s EXCEPT !.affected = @ \cup {rd1.pk},
                       !.main = IF is_main THEN rd1 ELSE @]
    IN SaveOrRaise(t, rd1)

PromoteMain_KeepsType(main_rd, a) == main_rd

\* lines 1850-1860: the main document becomes the attachment a
PromoteMain(main_rd, a) ==
    [main_rd EXCEPT !.document_type = ATTACHMENT,
                    !.attachment_number = a.attachment_number,
                    !.acms_document_guid =
                        IF a.acms_document_guid # None
                        THEN Val(a.acms_document_guid) ELSE @]

\* one turn of "for attachment in attachment_dicts"

MergeAttachment(s, a, args, de, document_number) ==
    LET zero == a.attachment_number = Some(0)
        long == dkt.appellate
                /\ is_long_appellate_document_number(document_number)
        guid_ok(r) == a.acms_document_guid # None
                        => r.acms_document_guid = Val(a.acms_document_guid)
        document_type == IF zero THEN PACER_DOCUMENT ELSE ATTACHMENT
        got == {r \in s.rds :
                  /\ r.docket_entry = de
                  /\ r.document_number = document_number
                  /\ r.document_type = document_type
                  /\ ~zero => r.attachment_number = a.attachment_number
                  /\ guid_ok(r)}
        by_id == {r \in s.rds :
                    /\ r.docket_entry = de
                    /\ ~long => r.document_number = document_number
                    /\ guid_ok(r)
                    /\ r.pacer_doc_id = a.pacer_doc_id}
        fixed(r) == IF zero
                    THEN [r EXCEPT
                            !.description = OldMainDescription(s.rds, de),
                            !.attachment_number = None,
                            !.document_type = PACER_DOCUMENT]
                    ELSE [r EXCEPT
                            !.attachment_number = a.attachment_number,
                            !.document_type = ATTACHMENT]
        made == [NewRD(s.ids.rd, de, document_type, document_number,
                       IF zero THEN None ELSE a.attachment_number, "",
                       IF zero THEN OldMainDescription(s.rds, de) ELSE "")
                   EXCEPT !.acms_document_guid =
                              IF a.acms_document_guid # None
                              THEN Val(a.acms_document_guid) ELSE @]
    IN IF a.attachment_number = None \/ a.pacer_doc_id = "" THEN s
       ELSE IF a.has_page_count /\ a.page_count = None /\ ~zero THEN s
       ELSE IF /\ dkt.appellate
               /\ a.pacer_doc_id = s.main.pacer_doc_id
               /\ ~s.main_rd_to_att
       THEN UpdateAndSave([s EXCEPT !.main_rd_to_att = TRUE],
                          PromoteMain(s.main, a), a, args, document_number,
                          TRUE)
       ELSE IF Cardinality(got) = 1
       THEN UpdateAndSave(s, CHOOSE r \in got : TRUE, a, args,
                          document_number, FALSE)
       ELSE IF got # {} THEN Raise(s, "MultipleObjectsReturned")
       ELSE IF Cardinality(by_id) = 1
       THEN UpdateAndSave(s, fixed(CHOOSE r \in by_id : TRUE), a, args,
                          document_number, FALSE)
       ELSE IF by_id # {} THEN Raise(s, "MultipleObjectsReturned")
       ELSE UpdateAndSave([s EXCEPT !.created = @ \cup {made.pk}], made, a,
                          args, document_number, FALSE)

RECURSIVE MergeAttachments(_, _, _, _, _)
MergeAttachments(s, args, i, de, document_number) ==
    IF i > Len(args.attachment_dicts) \/ s.status # "run" THEN s
    ELSE CHOOSE r \in
             {MergeAttachments(t, args, i + 1, de, document_number) :
                t \in {MergeAttachment(s, args.attachment_dicts[i], args, de,
                                       document_number)}} : TRUE

\* the external ids that more than one document of the entry carries
DupeDocIds(rows, de) ==
    {id \in {r.pacer_doc_id : r \in rows} :
       Cardinality({r \in rows : r.docket_entry = de
                                 /\ r.pacer_doc_id = id}) > 1}

\* clean_duplicate_attachment_entries(de, attachment_dicts).  A duplicate
\* that two dicts tell to delete is deleted twice, and the second delete of
\* the same object raises.
clean_duplicate_attachment_entries(s, de, attachment_dicts) ==
    LET dupes == {r \in s.rds : /\ r.docket_entry = de
                                /\ r.pacer_doc_id \in DupeDocIds(s.rds, de)}
        wrong(r) == {i \in DOMAIN attachment_dicts :
                       /\ attachment_dicts[i].pacer_doc_id = r.pacer_doc_id
                       /\ attachment_dicts[i].attachment_number
                            # r.attachment_number}
        gone == {r \in dupes : wrong(r) # {}}
        rows1 == s.rds \ gone
        ids2 == DupeDocIds(rows1, de)
        same(id) == {r \in rows1 : r.docket_entry = de /\ r.pacer_doc_id = id}
        rows2 == {r \in rows1 :
                    (r.docket_entry = de /\ r.pacer_doc_id \in ids2)
                        => r = keep_latest_rd_document(same(r.pacer_doc_id))}
    IN IF \E r \in dupes : Cardinality(wrong(r)) > 1
       THEN Raise([s EXCEPT !.rds = rows1], "ValueError")
       ELSE [s EXCEPT !.rds = rows2]

\* lines 1966-1972: after the loop
AfterAttachments(s3, args, de) ==
    IF s3.status # "run" THEN s3
    ELSE IF args.is_acms_attachment
    THEN [s3 EXCEPT !.status = "done", !.marked = TRUE]
    ELSE CHOOSE r \in
             {IF s4.status # "run" THEN s4
              ELSE [s4 EXCEPT !.status = "done", !.marked = TRUE] :
                s4 \in {clean_duplicate_attachment_entries(
                            s3, de, args.attachment_dicts)}} : TRUE

\* lines 1799-1972: from the resolved main document s1.main on
AfterMain(s1, args) ==
    LET de == s1.main.docket_entry
        document_number == IF args.document_number = None
                           THEN s1.main.document_number
                           ELSE Val(args.document_number)
        s2 == [s1 EXCEPT !.resolved = Some(s1.main)]
    IN IF s1.status # "run" THEN s1
       ELSE IF args.debug THEN [s2 EXCEPT !.status = "debug"]
       ELSE CHOOSE r \in
                {AfterAttachments(s3, args, de) :
                   s3 \in {MergeAttachments(
                              [s2 EXCEPT !.archived = args.text # None],
                              args, 1, de, document_number)}} : TRUE

\* merge_attachment_page_data(court, pacer_case_id, pacer_doc_id,
\* document_number, text, attachment_dicts, debug, is_acms_attachment)
merge_attachment_page_data(args, first) ==
    LET s0 == [rds |-> rds, ids |-> ids, status |-> "run",
               main |-> NewRD(0, 0, PACER_DOCUMENT, "", None, "", ""),
               found |-> FALSE, migrated_description |-> "",
               main_rd_to_att |-> FALSE, created |-> {}, affected |-> {},
               resolved |-> None, archived |-> FALSE, marked |-> FALSE]
    IN CHOOSE r \in {AfterMain(s1, args) :
                       s1 \in {ResolveMain(s0, args, first)}} : TRUE

\* a call with one of profiles and one of lists
MergeAttachmentPageDataFrom(profiles, lists) ==
    \E profile \in profiles, pacer_doc_id \in {"X", "Z"},
       attachment_dicts \in lists :
        LET args == [pacer_case_id |-> profile.pacer_case_id,
                     pacer_doc_id |-> pacer_doc_id,
                     document_number |->
                         IF profile.with_number
                         THEN Some(dkt.document_number) ELSE None,
                     text |-> profile.text,
                     attachment_dicts |-> attachment_dicts,
                     debug |-> profile.debug,
                     is_acms_attachment |-> profile.is_acms_attachment]
            cost == IF attachment_dicts = <<>> THEN 1
                    ELSE Len(attachment_dicts)
            firsts == IF args.is_acms_attachment
                      THEN MainMatches(rds, pacer_doc_id, args.pacer_case_id)
                      ELSE {}
        IN /\ ma.calls < MaxAttachCalls
           /\ ma.dicts + cost <= MaxAttachDicts
           /\ \E first \in IF firsts = {} THEN {NewRD(0, 0, PACER_DOCUMENT,
                                                      "", None, "", "")}
                           ELSE firsts :
                 \E s \in {merge_attachment_page_data(args, first)} :
                    /\ rds' = s.rds
                    /\ ids' = s.ids
                    /\ dkt' = [dkt EXCEPT
                                 !.html_pages = IF s.archived THEN @ + 1
                                                ELSE @,
                                 !.ia_needs_upload = @ \/ s.marked]
                    /\ ma' = [called |-> TRUE, calls |-> ma.calls + 1,
                              dicts |-> ma.dicts + cost, args |-> args,
                              status |-> s.status, main |-> s.resolved,
                              before |-> rds, created |-> s.created,
                              affected |-> s.affected]
           /\ UNCHANGED <<des, kl, ae>>
           /\ UNCHANGED <<metaVars, locatorVars, partyVars, sq, cq, ap, pw, ew, ow, po>>

MergeAttachmentPageData ==
    MergeAttachmentPageDataFrom(CallProfiles, AttachmentLists)

\* a docket of an appellate or district court with two numbered entries,
\* each with its main document as add_docket_entries made it
AttachInit ==
    /\ d = BlankDocket
    /\ md = MdIdle
    /\ dockets = {}
    /\ fd = FdIdle
    /\ parties = {}
    /\ attorneys = {}
    /\ party_types = {}
    /\ roles = {}
    /\ crim = {}
    /\ orgs = [rows |-> {}, assoc |-> {}]
    /\ pa = PaIdle
    /\ \E appellate, unique_raises \in BOOLEAN :
         \E number \in IF appellate THEN {"1", LONG_NUMBER} ELSE {"1"} :
            /\ dkt = [DktInit EXCEPT !.appellate = appellate,
                                     !.unique_raises = unique_raises,
                                     !.document_number = number,
                                     !.date_last_filing = Some(1)]
            /\ rds = {NewRD(1, 1, PACER_DOCUMENT, number, None, "X", "main"),
                      NewRD(2, 2, PACER_DOCUMENT, "2", None, "Y", "")}
    /\ des = {[NewDE(1, Some(1), None) EXCEPT
                 !.date_filed = Some(1),
                 !.recap_sequence_number = make_recap_sequence_number(1, 1)],
              [NewDE(2, Some(2), None) EXCEPT
                 !.date_filed = Some(1),
                 !.recap_sequence_number = make_recap_sequence_number(1, 2)]}
    /\ ids = [de |-> 3, rd |-> 3]
    /\ kl = KlIdle
    /\ ae = AeIdle
    /\ ma = MaIdle
    /\ sq = SqIdle
    /\ cq = CqIdle
    /\ ap = ApIdle
    /\ pw = PwIdle
    /\ ew = EwIdle
    /\ ow = OwIdle
    /\ po = PoIdle

AttachNext == MergeAttachmentPageData

SpecAttach == AttachInit /\ [][AttachNext]_vars

\* the dicts of the last call that carry the external id of the resolved
\* main document
ItemsWithMainId ==
    {i \in DOMAIN ma.args.attachment_dicts :
        ma.args.attachment_dicts[i].pacer_doc_id = Val(ma.main).pacer_doc_id}

\* appellate call whose resolved main document has the external id of a
\* dict with attachment number 0
C7_Case ==
    /\ ma.called
    /\ dkt.appellate
    /\ ma.main # None
    /\ \E i \in ItemsWithMainId :
          ma.args.attachment_dicts[i].attachment_number = Some(0)

\* the resolved row is, after the call, attachment 0 under the same primary
\* key, and no row the call created carries its external id
C7_Promoted ==
    /\ \E r \in rds : /\ r.pk = Val(ma.main).pk
                      /\ r.document_type = ATTACHMENT
                      /\ r.attachment_number = Some(0)
    /\ ~\E r \in rds : /\ r.pk \notin Pks(ma.before)
                       /\ r.pacer_doc_id = Val(ma.main).pacer_doc_id

MaxSeqLen == 3

\* the dicts of a scraped docket: numbered "1", "2", "3", numbered with
\* something int() rejects, or unnumbered; filed on date 1 or 2
SeqDicts ==
    {NDict(n, Some(date_filed), "", "", "", None, None) :
       n \in {"1", "2", "3", "A"}, date_filed \in {1, 2}}
    \cup {UDict(Some(date_filed), "", "", "") : date_filed \in {1, 2}}

SeqLists == UNION {[1..n -> SeqDicts] : n \in 0..MaxSeqLen}

CalculateRecapSequenceNumbers ==
    /\ ~sq.called
    /\ sq' = [sq EXCEPT
                !.called = TRUE,
                !.result = calculate_recap_sequence_numbers(sq.docket_entries)]
    /\ UNCHANGED <<metaVars, locatorVars, partyVars, docVars, cq, ap, pw, ew, ow, po>>

SeqInit ==
    /\ d = BlankDocket
    /\ md = MdIdle
    /\ dockets = {}
    /\ fd = FdIdle
    /\ parties = {}
    /\ attorneys = {}
    /\ party_types = {}
    /\ roles = {}
    /\ crim = {}
    /\ orgs = [rows |-> {}, assoc |-> {}]
    /\ pa = PaIdle
    /\ des = {}
    /\ rds = {}
    /\ ids = [de |-> 1, rd |-> 1]
    /\ dkt = DktInit
    /\ kl = KlIdle
    /\ ae = AeIdle
    /\ ma = MaIdle
    /\ \E docket_entries \in SeqLists :
          sq = [SqIdle EXCEPT !.docket_entries = docket_entries]
    /\ cq = CqIdle
    /\ ap = ApIdle
    /\ pw = PwIdle
    /\ ew = EwIdle
    /\ ow = OwIdle
    /\ po = PoIdle

SeqNext == CalculateRecapSequenceNumbers

SpecSequence == SeqInit /\ [][SeqNext]_vars

\* the index a sequence string ends with
SeqIndexOf(n) == n[2] * 100 + n[3] * 10 + n[4]

\* the dicts of the result without their sequence strings
SeqStripped ==
    [i \in 1..Len(sq.result) |->
       [k \in DOMAIN UDict(None, "", "", "") |-> sq.result[i][k]]]

\* C11: in the list as the function leaves it, the first entry and every
\* entry filed on another date than its predecessor has index 1, every
\* entry filed on its predecessor's date has the predecessor's index plus 1,
\* and each sequence string is the filed date followed by the index in three
\* digits; [(no number, D1), (no number, D1), (1, D2)] gets D1.001, D1.002,
\* D2.001.
C11_SequenceIndices ==
    sq.called =>
        /\ \A i \in 1..Len(sq.result) :
              LET e == sq.result[i]
              IN /\ e.recap_sequence_number[1] = Val(e.date_filed)
                 /\ Len(e.recap_sequence_number) = 4
                 /\ \A k \in 2..4 : e.recap_sequence_number[k] \in 0..9
                 /\ SeqIndexOf(e.recap_sequence_number) =
                      IF i > 1 /\ e.date_filed = sq.result[i - 1].date_filed
                      THEN SeqIndexOf(sq.result[i - 1].recap_sequence_number)
                           + 1
                      ELSE 1
        /\ sq.docket_entries = <<UDict(Some(1), "", "", ""),
                                 UDict(Some(1), "", "", ""),
                                 NDict("1", Some(2), "", "", "", None, None)>>
             => [i \in 1..3 |-> sq.result[i].recap_sequence_number]
                  = <<(<<1, 0, 0, 1>>), (<<1, 0, 0, 2>>), (<<2, 0, 0, 1>>)>>

C11_Witness ==
    /\ sq.called
    /\ Len(sq.result) = 3
    /\ sq.result[1].date_filed = sq.result[2].date_filed
    /\ sq.result[3].date_filed # sq.result[2].date_filed
    /\ sq.result[2].recap_sequence_number = <<1, 0, 0, 2>>
    /\ sq.result[3].recap_sequence_number = <<2, 0, 0, 1>>

\* the adjacent pairs of the input whose numbers are both integers and differ
ComparablePairs ==
    {i \in 1..(Len(sq.docket_entries) - 1) :
       /\ IsInt(sq.docket_entries[i].document_number)
       /\ IsInt(sq.docket_entries[i + 1].document_number)
       /\ ToInt(sq.docket_entries[i].document_number)
            # ToInt(sq.docket_entries[i + 1].document_number)}

\* C12: the first adjacent pair of unequal integer entry numbers decides the
\* direction: first number smaller, the list is processed as received; first
\* number larger, the whole list is reversed; no such pair, as received.
C12_Direction ==
    sq.called =>
        IF ComparablePairs = {} THEN SeqStripped = sq.docket_entries
        ELSE LET i == CHOOSE k \in ComparablePairs :
                         \A o \in ComparablePairs : k <= o
             IN IF ToInt(sq.docket_entries[i].document_number)
                     < ToInt(sq.docket_entries[i + 1].document_number)
                THEN SeqStripped = sq.docket_entries
                ELSE SeqStripped = Reverse(sq.docket_entries)

C12_Witness ==
    /\ sq.called
    /\ ComparablePairs = {2}
    /\ ~IsInt(sq.docket_entries[1].document_number)
    /\ SeqStripped = Reverse(sq.docket_entries)
    /\ SeqStripped # sq.docket_entries

\* a < b for two sequence strings, compared as strings
SeqLess(a, b) ==
    \E k \in 1..4 : /\ a[k] < b[k]
                    /\ \A j \in 1..(k - 1) : a[j] = b[j]

\* C13: the sequence strings of a batch are pairwise distinct and ascend
\* along the list as the function leaves it.
C13_TotalOrder ==
    sq.called =>
        \A i, j \in 1..Len(sq.result) :
            i < j => SeqLess(sq.result[i].recap_sequence_number,
                             sq.result[j].recap_sequence_number)

(***************************************************************************)
(* process_case_query_report, run by concurrent workers                    *)
(*                                                                         *)
(* Each worker runs find_docket_object one query at a time, then saves the *)
(* docket object it holds; nothing is locked.  The Docket table rejects a  *)
(* second row with the same court and non-null pacer_case_id with an       *)
(* IntegrityError, which the retry decorator answers by running the        *)
(* function again.                                                         *)
(***************************************************************************)
Workers == {1, 2}

\* @retry(IntegrityError, tries=3, delay=0.25, backoff=1)
tries == 3

CASE_ID == Some("c1")

\* a stored docket of the court
DocketRow(pk, pacer_case_id, docket_number) ==
    [pk |-> pk, date_created |-> pk, pacer_case_id |-> pacer_case_id,
     docket_number |-> docket_number,
     docket_number_core |-> make_docket_number_core(docket_number)]
    @@ NoComponents

\* the stores the calls can start on: none of them holds the case
CaseQueryStores ==
    {{}} \cup
    {{DocketRow(1, pacer_case_id, docket_number)} :
        pacer_case_id \in {None, Some("c2")},
        docket_number \in {"1:12-cv-00123", "1:12-cr-00123"}}

UniqueViolation_Off(rows, row) == FALSE

\* the unique constraint of the Docket table on (court, pacer_case_id)
UniqueViolation(rows, row) ==
    /\ row.pacer_case_id # None
    /\ \E o \in rows : o.pk # row.pk /\ o.pacer_case_id = row.pacer_case_id

\* a worker at the start of an attempt
CqStart(args, attempt) ==
    [pc |-> "count", attempt |-> attempt, args |-> args, tier |-> 1,
     count |-> 0, d |-> None]

\* lines 196-199: ds.acount() of the next lookup
CqCount(p) ==
    LET w == cq[p]
        lookups == Lookups(w.args)
        count == Cardinality(FilterDockets(dockets, lookups[w.tier]))
    IN /\ w.pc = "count"
       /\ cq' = [cq EXCEPT ![p] =
                    IF w.tier > Len(lookups) THEN [w EXCEPT !.pc = "save"]
                    ELSE IF count = 0 THEN [w EXCEPT !.tier = @ + 1]
                    ELSE [w EXCEPT !.pc = "fetch", !.count = count]]
       /\ UNCHANGED <<dockets, fd, metaVars, partyVars, docVars, sq, ap, pw, ew, ow, po>>

\* lines 200-241: the rows are fetched after they were counted, from the
\* table as it is now
CqFetch(p) ==
    LET w == cq[p]
        kw == Lookups(w.args)[w.tier]
        ds == FilterDockets(dockets, kw)
        dn_queryset ==
            {r \in ds : \A k \in DnComponents :
                           w.args.components[k] # ""
                               => r[k] = w.args.components[k]}
        found(pk) == [w EXCEPT !.pc = "save",
                               !.d = {r \in dockets : r.pk = Val(pk)}]
        missed == [w EXCEPT !.pc = "count", !.tier = @ + 1]
        outcome(pk) == IF pk = None THEN missed ELSE found(pk)
    IN /\ w.pc = "fetch"
       /\ cq' = [cq EXCEPT ![p] =
            IF w.count = 1
            THEN IF ds = {}
                 THEN IF IsCoreLookup(kw)
                      THEN [w EXCEPT !.pc = "AttributeError"]
                      ELSE missed
                 ELSE LET dk == Earliest(ds)
                      IN IF IsCoreLookup(kw)
                         THEN outcome(confirm_docket_number_core_lookup_match(
                                  dk, w.args.docket_number, w.args.components))
                         ELSE found(Some(dk.pk))
            ELSE IF Cardinality(dn_queryset) = 1
            THEN found(Some((CHOOSE r \in dn_queryset : TRUE).pk))
            ELSE IF ds = {} THEN [w EXCEPT !.pc = "DoesNotExist"]
            ELSE IF IsCoreLookup(kw)
            THEN outcome(confirm_docket_number_core_lookup_match(
                     Earliest(ds), w.args.docket_number, NoComponents))
            ELSE found(Some(Earliest(ds).pk))]
       /\ UNCHANGED <<dockets, fd, metaVars, partyVars, docVars, sq, ap, pw, ew, ow, po>>

\* lines 2095-2102: the docket object the worker holds, merged and saved
CqRow(w) ==
    IF w.d = None
    THEN [MergedRow(dockets, w.args, None) EXCEPT
            !.pk = 1 + MaxOf({r.pk : r \in dockets} \cup {0}),
            !.date_created = 1 + MaxOf({r.pk : r \in dockets} \cup {0})]
    ELSE [MergedRow(w.d, w.args, Some(Val(w.d).pk)) EXCEPT
            !.pacer_case_id = w.args.pacer_case_id]

\* d.save(), and the retry decorator around the whole function
CqSave(p) ==
    LET w == cq[p]
        row == CqRow(w)
    IN /\ w.pc = "save"
       /\ IF UniqueViolation(dockets, row)
          THEN /\ cq' = [cq EXCEPT ![p] =
                           IF w.attempt < tries
                           THEN CqStart(w.args, w.attempt + 1)
                           ELSE [w EXCEPT !.pc = "IntegrityError"]]
               /\ UNCHANGED dockets
          ELSE /\ dockets' = {r \in dockets : r.pk # row.pk} \cup {row}
               /\ cq' = [cq EXCEPT ![p] = [w EXCEPT !.pc = "done"]]
       /\ UNCHANGED <<fd, metaVars, partyVars, docVars, sq, ap, pw, ew, ow, po>>

CaseQueryInit ==
    /\ d = BlankDocket
    /\ md = MdIdle
    /\ dockets \in CaseQueryStores
    /\ fd = FdIdle
    /\ parties = {}
    /\ attorneys = {}
    /\ party_types = {}
    /\ roles = {}
    /\ crim = {}
    /\ orgs = [rows |-> {}, assoc |-> {}]
    /\ pa = PaIdle
    /\ des = {}
    /\ rds = {}
    /\ ids = [de |-> 1, rd |-> 1]
    /\ dkt = DktInit
    /\ kl = KlIdle
    /\ ae = AeIdle
    /\ ma = MaIdle
    /\ sq = SqIdle
    /\ ap = ApIdle
    /\ pw = PwIdle
    /\ ew = EwIdle
    /\ ow = OwIdle
    /\ po = PoIdle
    /\ \E numbers \in [Workers -> {"1:12-cv-00123", "1:12-cr-00123"}] :
          cq = [p \in Workers |->
                  CqStart([pacer_case_id |-> CASE_ID,
                           docket_number |-> numbers[p],
                           components |-> NoComponents], 1)]

CaseQueryNext == \E p \in Workers : CqCount(p) \/ CqFetch(p) \/ CqSave(p)

SpecCaseQuery == CaseQueryInit /\ [][CaseQueryNext]_vars

CqFinished ==
    /\ cq # CqIdle
    /\ \A p \in Workers : cq[p].pc \notin {"count", "fetch", "save"}

MaxDocsDicts == 3

\* one scraped entry per call: a main document, attachments, another entry
DocsEntryLists ==
    {<<e>> : e \in {NDict("1", Some(1), "A", "", "X", None, None),
                    NDict("1", Some(1), "", "S", "Y", Some(5), None),
                    NDict("1", Some(1), "", "", "X", None, Some(1)),
                    NDict("1", Some(1), "A", "S", "Y", None, Some(1)),
                    NDict("2", Some(1), "A", "", "", None, None)}}

DocsAttachmentLists ==
    LET a(attachment_number, pacer_doc_id) ==
            AttDict(Some(attachment_number), pacer_doc_id, "att", TRUE,
                    Some(5), None, "", None)
    IN {<<a(0, "X")>>, <<a(1, "X")>>, <<a(0, "Y")>>, <<a(1, "Y")>>,
        <<a(2, "Y")>>, <<a(0, "X"), a(1, "Y")>>, <<a(1, "X"), a(2, "Y")>>}

DocsProfiles == {p \in CallProfiles : ~p.debug /\ p.pacer_case_id # None}

DocsAddEntries ==
    /\ ae.dicts + ma.dicts < MaxDocsDicts
    /\ AddDocketEntriesFrom(DocsEntryLists)

DocsMergeAttachments ==
    /\ ae.dicts + ma.dicts < MaxDocsDicts
    /\ MergeAttachmentPageDataFrom(DocsProfiles, DocsAttachmentLists)

DocsInit == EntriesInit \/ AttachInit

DocsNext == DocsAddEntries \/ DocsMergeAttachments

SpecDocs == DocsInit /\ [][DocsNext]_vars

\* the MAIN documents of the entry de
MainsOf(de) ==
    {r \in rds : r.docket_entry = de /\ r.document_type = PACER_DOCUMENT}

NoMainMatch ==
    /\ ma.called
    /\ MainMatches(ma.before, ma.args.pacer_doc_id, ma.args.pacer_case_id)
         = {}
    /\ \A i \in DOMAIN ma.args.attachment_dicts :
          MainMatches(ma.before, ma.args.attachment_dicts[i].pacer_doc_id,
                      ma.args.pacer_case_id) = {}

\* C17: a call that can resolve no main document raises
\* RECAPDocument.DoesNotExist and creates, modifies or deletes no row, for
\* ACMS and non-ACMS calls alike.
C17_DoesNotExist ==
    NoMainMatch => (ma.status = "DoesNotExist" /\ rds = ma.before)

(***************************************************************************)
(* Appellate metadata: update_docket_appellate_metadata and the part of    *)
(* merge_pacer_docket_into_cl_docket that calls it.  ap.mem is the Docket  *)
(* object in memory, ap.row the stored Docket row and ap.ogs the           *)
(* OriginatingCourtInformation table.                                      *)
(***************************************************************************)
MaxAppCalls == 2

\* ", ".join(panel)
RECURSIVE JoinPanel(_)
JoinPanel(panel) ==
    IF panel = <<>> THEN ""
    ELSE IF Len(panel) = 1 THEN panel[1]
    ELSE panel[1] \o ", " \o JoinPanel(Tail(panel))

\* map_pacer_to_cl_id: PACER's court ids differ from the local ones for a
\* few courts.
map_pacer_to_cl_id(court_id) == IF court_id = "azb" THEN "arb" ELSE court_id

\* The Court table.
Courts == {"arb"}

\* anonymize: an A-number is replaced by a mask, other text is kept.
anonymize(text) == IF text = "A12-345-678" THEN "XXX" ELSE text

\* The fields of OriginatingCourtInformation merged as
\* `og_info.get(key) or existing`.
OgFillFields ==
    {"court_reporter", "date_disposed", "date_filed", "date_judgment",
     "date_judgment_eod", "date_filed_noa", "date_received_coa",
     "assigned_to_str", "ordering_judge_str"}

\* The key of og_info that feeds each field.
OgKey(f) ==
    IF f = "assigned_to_str" THEN "assigned_to"
    ELSE IF f = "ordering_judge_str" THEN "ordering_judge"
    ELSE f

\* OriginatingCourtInformation(): unsaved and blank.
NewOgInfo ==
    [f \in OgFillFields |-> ""] @@
    [pk |-> None, docket_number |-> "", assigned_to |-> None,
     ordering_judge |-> None]

\* The originating_court_information dicts of the appellate parser; the
\* fields other than court, number and filing date carry one value.
OgInfoDicts ==
    { [f \in {OgKey(g) : g \in OgFillFields \ {"date_filed"}} |-> rest] @@
      [court_id |-> c, docket_number |-> n, date_filed |-> df]
      : c \in {"", "azb", "uspci"}, n \in {"", "A12-345-678"},
        df \in {"", "f1"}, rest \in {"", "v1"} }

\* The appellate part of docket_data.
AppellateData ==
    { [panel |-> pn, fee_status |-> fs, case_type_information |-> fs,
       appeal_from |-> af, originating_court_information |-> og]
      : pn \in {<<>>, <<"J1", "J2">>}, fs \in {"", "paid"},
        af \in {"", "D. Ariz."},
        og \in {None} \cup {Some(o) : o \in OgInfoDicts} }

\* OriginatingCourtInformation.objects.aget(docket=d): the row the stored
\* docket points to, or a new object when there is none (or d has no pk).
ExistingOgInfo(dk, row, ogs) ==
    IF dk.pk = None \/ row = None THEN NewOgInfo
    ELSE IF Val(row).originating_court_information = None THEN NewOgInfo
    ELSE CHOOSE o \in ogs : o.pk = Val(row).originating_court_information

\* The data passes the gate at the top of update_docket_appellate_metadata.
PassesGate(docket_data) ==
    \/ docket_data.originating_court_information # None
    \/ docket_data.appeal_from # ""
    \/ docket_data.panel # <<>>

\* The docket after the four `incoming or existing` assignments.
AppellateFieldsMerged(dk, docket_data) ==
    [dk EXCEPT
        !.panel_str = OrStr(JoinPanel(docket_data.panel), dk.panel_str),
        !.appellate_fee_status =
            OrStr(docket_data.fee_status, dk.appellate_fee_status),
        !.appellate_case_type_information =
            OrStr(docket_data.case_type_information,
                  dk.appellate_case_type_information),
        !.appeal_from_str = OrStr(docket_data.appeal_from, dk.appeal_from_str)]

\* The docket after the court of origin is resolved.
WithAppealFromId(dk, og_info) ==
    IF og_info.court_id # "" /\ map_pacer_to_cl_id(og_info.court_id) \in Courts
    THEN [dk EXCEPT !.appeal_from_id = Some(map_pacer_to_cl_id(og_info.court_id))]
    ELSE dk

\* d_og_info after the field assignments, before the judge lookups.
OgInfoMerged(d_og_info, og_info) ==
    [f \in OgFillFields |-> OrStr(og_info[OgKey(f)], d_og_info[f])] @@
    [pk |-> d_og_info.pk,
     docket_number |->
        anonymize(OrStr(og_info.docket_number, d_og_info.docket_number)),
     assigned_to |-> d_og_info.assigned_to,
     ordering_judge |-> d_og_info.ordering_judge]

\* The outcomes of update_docket_appellate_metadata: the docket and the
\* originating-court object (None when there is none), one outcome per
\* result of the two judge lookups.
update_docket_appellate_metadata(dk, docket_data, row, ogs) ==
    IF ~PassesGate(docket_data) THEN {[d |-> dk, og |-> None]}
    ELSE
    LET d1 == AppellateFieldsMerged(dk, docket_data)
    IN  IF docket_data.originating_court_information = None
        THEN {[d |-> d1, og |-> None]}
        ELSE
        LET og_info == Val(docket_data.originating_court_information)
            d2 == WithAppealFromId(d1, og_info)
            o1 == OgInfoMerged(ExistingOgInfo(dk, row, ogs), og_info)
        IN  IF d2.appeal_from_id = None \/ o1.date_filed = ""
            THEN {[d |-> d2, og |-> Some(o1)]}
            ELSE {[d |-> d2,
                   og |-> Some([o1 EXCEPT !.assigned_to = a,
                                          !.ordering_judge = j])]
                  : a \in JudgeOutcomes(o1.assigned_to, og_info.assigned_to),
                    j \in JudgeOutcomes(o1.ordering_judge,
                                        og_info.ordering_judge)}

\* A caller runs update_docket_appellate_metadata on the docket object.
UpdateDocketAppellateMetadata ==
    /\ ap.calls < MaxAppCalls
    /\ \E docket_data \in AppellateData :
       \E r \in update_docket_appellate_metadata(ap.mem, docket_data,
                                                  ap.row, ap.ogs) :
          ap' = [ap EXCEPT
                    !.mem = r.d,
                    !.calls = @ + 1,
                    !.call = [op |-> "update", appellate |-> TRUE,
                              data |-> docket_data, og |-> r.og]]
    /\ UNCHANGED <<metaVars, locatorVars, partyVars, docVars, sq, cq, pw, ew, ow, po>>

\* og_info.save(): an insert gives the row the next primary key.
SavedOgInfo(og, ogs) ==
    IF og.pk # None THEN og
    ELSE [og EXCEPT !.pk = Some(Cardinality(ogs) + 1)]

\* merge_pacer_docket_into_cl_docket for a report without parties and
\* without docket entries: d.save(), then the appellate step, whose
\* originating-court object is saved and attached to the docket object.
MergePacerDocketIntoClDocket ==
    /\ ap.calls < MaxAppCalls
    /\ \E docket_data \in AppellateData, appellate \in BOOLEAN :
       LET saved == [ap.mem EXCEPT !.pk = Some(1)]
       IN  IF ~appellate
           THEN ap' = [ap EXCEPT
                          !.mem = saved, !.row = Some(saved),
                          !.calls = @ + 1,
                          !.call = [op |-> "merge", appellate |-> FALSE,
                                    data |-> docket_data, og |-> None]]
           ELSE \E r \in update_docket_appellate_metadata(
                              saved, docket_data, Some(saved), ap.ogs) :
                  IF r.og = None
                  THEN ap' = [ap EXCEPT
                                 !.mem = r.d, !.row = Some(saved),
                                 !.calls = @ + 1,
                                 !.call = [op |-> "merge", appellate |-> TRUE,
                                           data |-> docket_data, og |-> None]]
                  ELSE \E o \in {SavedOgInfo(Val(r.og), ap.ogs)} :
                         ap' = [ap EXCEPT
                                 !.mem = [r.d EXCEPT
                                     !.originating_court_information = o.pk],
                                 !.row = Some(saved),
                                 !.ogs = {x \in @ : x.pk # o.pk} \cup {o},
                                 !.calls = @ + 1,
                                 !.call = [op |-> "merge", appellate |-> TRUE,
                                           data |-> docket_data, og |-> Some(o)]]
    /\ UNCHANGED <<metaVars, locatorVars, partyVars, docVars, sq, cq, pw, ew, ow, po>>

\* A stored appellate docket with its originating court, loaded in memory.
StoredAppellateDocket ==
    [pk |-> Some(1), panel_str |-> "J9", appellate_fee_status |-> "due",
     appellate_case_type_information |-> "due", appeal_from_str |-> "old",
     appeal_from_id |-> Some("arb"),
     originating_court_information |-> Some(1)]

\* The docket is new, or stored without appellate data, or stored with
\* appellate data and an originating court.
AppellateInit ==
    /\ d = BlankDocket
    /\ md = MdIdle
    /\ dockets = {}
    /\ fd = FdIdle
    /\ parties = {}
    /\ attorneys = {}
    /\ party_types = {}
    /\ roles = {}
    /\ crim = {}
    /\ orgs = [rows |-> {}, assoc |-> {}]
    /\ pa = PaIdle
    /\ des = {}
    /\ rds = {}
    /\ ids = [de |-> 1, rd |-> 1]
    /\ dkt = DktInit
    /\ kl = KlIdle
    /\ ae = AeIdle
    /\ ma = MaIdle
    /\ sq = SqIdle
    /\ cq = CqIdle
    /\ pw = PwIdle
    /\ ew = EwIdle
    /\ ow = OwIdle
    /\ po = PoIdle
    /\ \/ ap = ApIdle
       \/ ap = [ApIdle EXCEPT
                   !.mem = [NewAppellateDocket EXCEPT !.pk = Some(1)],
                   !.row = Some([NewAppellateDocket EXCEPT !.pk = Some(1)])]
       \/ ap = [ApIdle EXCEPT
                   !.mem = StoredAppellateDocket,
                   !.row = Some(StoredAppellateDocket),
                   !.ogs = {[NewOgInfo EXCEPT !.pk = Some(1),
                                              !.docket_number = "n0",
                                              !.date_filed = "f0"]}]

\* A caller looks the docket up again (find_docket_object returns the
\* stored row), dropping what was only in memory.
LoadDocket ==
    /\ ap.row # None
    /\ ap.mem # Val(ap.row)
    /\ ap' = [ap EXCEPT !.mem = Val(ap.row),
                        !.call = [@ EXCEPT !.op = "load"]]
    /\ UNCHANGED <<metaVars, locatorVars, partyVars, docVars, sq, cq, pw, ew, ow, po>>

AppellateNext ==
    \/ UpdateDocketAppellateMetadata
    \/ MergePacerDocketIntoClDocket
    \/ LoadDocket

SpecAppellate == AppellateInit /\ [][AppellateNext]_vars

\* The input carries at least one of the appellate-specific fields.
CarriesAppellateField(docket_data) ==
    \/ docket_data.panel # <<>>
    \/ docket_data.fee_status # ""
    \/ docket_data.appeal_from # ""
    \/ docket_data.originating_court_information # None

\* C23: update_docket_appellate_metadata updates the docket's appellate
\* fields if and only if the input carries at least one appellate-specific
\* field (panel, fee status, appeal-from, originating-court information);
\* with none of them the docket is returned unchanged and without an
\* originating-court object.
C23_GatedOnAnyAppellateField ==
    [][ap'.call.op = "update" /\ ap'.calls = ap.calls + 1 =>
        IF CarriesAppellateField(ap'.call.data)
        THEN /\ ap'.mem.panel_str =
                   OrStr(JoinPanel(ap'.call.data.panel), ap.mem.panel_str)
             /\ ap'.mem.appellate_fee_status =
                   OrStr(ap'.call.data.fee_status, ap.mem.appellate_fee_status)
             /\ ap'.mem.appeal_from_str =
                   OrStr(ap'.call.data.appeal_from, ap.mem.appeal_from_str)
        ELSE ap'.mem = ap.mem /\ ap'.call.og = None]_vars

\* C24: after merge_pacer_docket_into_cl_docket with appellate=true and an
\* input carrying appellate fields, the stored Docket row holds the merged
\* panel, fee status and appeal-from values and points to the saved
\* OriginatingCourtInformation row.
C24_StoredRowHoldsAppellate ==
    (/\ ap.call.op = "merge"
     /\ ap.call.appellate
     /\ PassesGate(ap.call.data)
     /\ ap.call.data.originating_court_information # None)
    => /\ Val(ap.row).panel_str = ap.mem.panel_str
       /\ Val(ap.row).appellate_fee_status = ap.mem.appellate_fee_status
       /\ Val(ap.row).appeal_from_str = ap.mem.appeal_from_str
       /\ ap.call.og # None
       /\ Val(ap.call.og) \in ap.ogs
       /\ Val(ap.row).originating_court_information = Val(ap.call.og).pk

(***************************************************************************)
(* add_parties_and_attorneys statement by statement, for its transaction,  *)
(* its retry and concurrent calls.  Rows of Party and PartyType carry the  *)
(* worker whose open transaction inserted them (by, 0 once committed):     *)
(* other transactions do not see them before the commit.  The parties of   *)
(* these calls carry no criminal data.                                     *)
(***************************************************************************)
MaxRaceRows == 4

\* @retry(OperationalError, tries=2, ...)
parties_tries == 2

PwWorkers == {1, 2}

\* A list object: its party dicts and whether normalize_attorney_roles has
\* edited it in place.
ListObject(plist, normalized) == [parties |-> plist, normalized |-> normalized]

\* A worker that has not called add_parties_and_attorneys.
WorkerIdle ==
    [pc |-> "idle", args |-> <<>>, caller |-> ListObject(<<>>, FALSE),
     local_parties |-> ListObject(<<>>, FALSE),
     attempt |-> 0, txn |-> 0, txns |-> <<>>, i |-> 0, p |-> 0,
     updated_parties |-> {}, updated_attorneys |-> {}, snap |-> <<>>,
     aborted |-> FALSE]

\* A party dict without criminal data or termination date.
PlainParty(name, type, attys) ==
    [name |-> name, type |-> type, extra_info |-> "",
     date_terminated |-> None, criminal_data |-> None, attorneys |-> attys]

\* The party lists of two scrapes of one case; both name the new party P1.
RaceLists ==
    { << PlainParty("P1", "Plaintiff", <<>>) >>,
      << PlainParty("P2", "Defendant", <<>>),
         PlainParty("P1", "Plaintiff", <<>>) >> }

\* The party lists of the retried calls; attorneys carry free-text roles.
RetryLists ==
    { << PlainParty("P1", "Plaintiff",
            << [name |-> "A1", contact |-> "",
                roles |-> <<LEAD_RAW, TERMINATED_RAW>>] >>) >>,
      << PlainParty("P1", "Plaintiff", <<>>),
         PlainParty("P2", "Defendant",
            << [name |-> "A1", contact |-> "firm",
                roles |-> <<LEAD_RAW>>] >>) >>,
      << PlainParty("P2", "Defendant", <<>>) >> }

\* normalize_attorney_roles(parties): every attorney's roles replaced by
\* the normalized dicts.
NormalizedParties(plist) ==
    [k \in DOMAIN plist |->
        [plist[k] EXCEPT !.attorneys =
            [j \in DOMAIN plist[k].attorneys |->
                [plist[k].attorneys[j] EXCEPT
                    !.roles = normalize_attorney_roles(@)]]]]

\* A mutation of CallerListAfterNormalize: local_parties is the caller's
\* list itself, so the normalization edits it.
CallerListAfterNormalize_Aliased(obj) ==
    ListObject(NormalizedParties(obj.parties), TRUE)

\* The caller's list after local_parties = deepcopy(parties) and
\* normalize_attorney_roles(local_parties): the copy was edited, not the list.
CallerListAfterNormalize(obj) == obj

\* The rows a transaction of worker w sees: committed ones and its own.
Visible(rows, w) == {r \in rows : r.by \in {0, w}}

\* The party tables.
Tables ==
    [parties |-> parties, party_types |-> party_types, crim |-> crim,
     attorneys |-> attorneys, roles |-> roles, orgs |-> orgs]

\* The retry decorator calls the function (again): the body starts over
\* with a fresh copy of the caller's list, inside the transaction that is
\* already open.
NewAttempt(wk, aborted) ==
    [wk EXCEPT !.pc = "find", !.attempt = @ + 1,
               !.txns = Append(@, wk.txn),
               !.local_parties =
                   ListObject(NormalizedParties(wk.caller.parties), TRUE),
               !.caller = CallerListAfterNormalize(wk.caller),
               !.i = 1, !.p = 0, !.updated_parties = {},
               !.updated_attorneys = {}, !.aborted = aborted]

\* transaction.atomic opens the transaction, then the retry decorator makes
\* the first attempt.
PaBegin(w, lists) ==
    /\ pw[w].pc = "idle"
    /\ \E parties_arg \in lists :
          pw' = [pw EXCEPT ![w] =
                    NewAttempt([WorkerIdle EXCEPT !.args = parties_arg,
                                                  !.caller =
                                                    ListObject(parties_arg, FALSE),
                                                  !.txn = 1,
                                                  !.snap = Tables], FALSE)]
    /\ UNCHANGED <<parties, attorneys, party_types, roles, crim, orgs, pa>>
    /\ UNCHANGED <<metaVars, locatorVars, docVars, sq, cq, ap, ew, ow, po>>

\* ps = Party.objects.filter(name=..., party_types__docket=d); ps.count()
PaFind(w) ==
    /\ pw[w].pc = "find"
    /\ ~pw[w].aborted
    /\ LET party == pw[w].local_parties.parties[pw[w].i]
           ps == {x \in Visible(parties, w) :
                    /\ x.name = party.name
                    /\ \E pt \in Visible(party_types, w) : pt.party = x.pk}
       IN  pw' = [pw EXCEPT ![w] =
                    IF ps = {} THEN [@ EXCEPT !.pc = "create"]
                    ELSE [@ EXCEPT !.pc = "type",
                                   !.p = EarliestCreated(ps).pk,
                                   !.updated_parties =
                                       @ \cup {EarliestCreated(ps).pk}]]
    /\ UNCHANGED <<parties, attorneys, party_types, roles, crim, orgs, pa>>
    /\ UNCHANGED <<metaVars, locatorVars, docVars, sq, cq, ap, ew, ow, po>>

\* p = Party.objects.create(name=party["name"])
PaCreate(w) ==
    /\ pw[w].pc = "create"
    /\ ~pw[w].aborted
    /\ Cardinality(parties) < MaxRaceRows
    /\ LET party == pw[w].local_parties.parties[pw[w].i]
           made == [pk |-> MaxPk(parties) + 1, name |-> party.name, by |-> w]
       IN  /\ parties' = parties \cup {made}
           /\ pw' = [pw EXCEPT ![w] =
                        [@ EXCEPT !.pc = "type", !.p = made.pk,
                                  !.updated_parties = @ \cup {made.pk}]]
    /\ UNCHANGED <<attorneys, party_types, roles, crim, orgs, pa>>
    /\ UNCHANGED <<metaVars, locatorVars, docVars, sq, cq, ap, ew, ow, po>>

\* pts = p.party_types.filter(docket=d, name=party["type"]); update them or
\* create the PartyType.
PaType(w) ==
    /\ pw[w].pc = "type"
    /\ ~pw[w].aborted
    /\ LET party == pw[w].local_parties.parties[pw[w].i]
           pts == {pt \in Visible(party_types, w) :
                     pt.party = pw[w].p /\ pt.name = party.type}
           new_pt == [pk |-> MaxPk(party_types) + 1, party |-> pw[w].p,
                      name |-> party.type, extra_info |-> party.extra_info,
                      date_terminated |-> party.date_terminated,
                      highest_offense_level_opening |-> "",
                      highest_offense_level_terminated |-> "", by |-> w]
       IN  party_types' =
              IF pts # {}
              THEN {IF x \in pts
                    THEN [x EXCEPT !.extra_info = party.extra_info,
                                   !.date_terminated = party.date_terminated]
                    ELSE x : x \in party_types}
              ELSE party_types \cup {new_pt}
    /\ pw' = [pw EXCEPT ![w] = [@ EXCEPT !.pc = "attorneys"]]
    /\ UNCHANGED <<parties, attorneys, roles, crim, orgs, pa>>
    /\ UNCHANGED <<metaVars, locatorVars, docVars, sq, cq, ap, ew, ow, po>>

\* for atty in party.get("attorneys", []): add_attorney(...); then the next
\* party, or the end of the loop.  add_attorney normalizes the roles it is
\* given, so it is handed the free-text roles of the call's argument.
PaAttorneys(w) ==
    /\ pw[w].pc = "attorneys"
    /\ ~pw[w].aborted
    /\ \E res \in {AddAttorneys([attorneys |-> attorneys, roles |-> roles,
                                 orgs |-> orgs],
                                pw[w].args[pw[w].i].attorneys, 1, pw[w].p,
                                pw[w].updated_attorneys)} :
          /\ Cardinality(res.st.attorneys) <= MaxAttorneyRows
          /\ attorneys' = res.st.attorneys
          /\ roles' = res.st.roles
          /\ orgs' = res.st.orgs
          /\ pw' = [pw EXCEPT ![w] =
                      [@ EXCEPT !.updated_attorneys = res.updated,
                                !.i = @ + 1,
                                !.pc = IF pw[w].i = Len(pw[w].args)
                                       THEN "disassociate" ELSE "find"]]
    /\ UNCHANGED <<parties, party_types, crim, pa>>
    /\ UNCHANGED <<metaVars, locatorVars, docVars, sq, cq, ap, ew, ow, po>>

\* disassociate_extraneous_entities(d, local_parties, updated_parties,
\* updated_attorneys), on the rows the transaction sees.
PaDisassociate(w) ==
    /\ pw[w].pc = "disassociate"
    /\ ~pw[w].aborted
    /\ LET has_terminated ==
               \E k \in DOMAIN pw[w].args : DictHasTerminated(pw[w].args[k])
           seen == Visible(party_types, w)
           term == TerminatedToPreserve(has_terminated, seen, roles)
           parties_to_preserve == pw[w].updated_parties \cup term.parties
           attorneys_to_preserve == pw[w].updated_attorneys \cup term.attorneys
           pts1 == {pt \in seen : pt.party \in parties_to_preserve}
                   \cup (party_types \ seen)
       IN  /\ party_types' = pts1
           /\ crim' = {c \in crim : \E pt \in pts1 : pt.pk = c.party_type}
           /\ roles' = RolesKept(roles, attorneys_to_preserve, term.parties)
           /\ parties' = PartiesKept(parties, pts1)
    /\ pw' = [pw EXCEPT ![w] = [@ EXCEPT !.pc = "commit"]]
    /\ UNCHANGED <<attorneys, orgs, pa>>
    /\ UNCHANGED <<metaVars, locatorVars, docVars, sq, cq, ap, ew, ow, po>>

\* The function returns and transaction.atomic commits.
PaCommit(w) ==
    /\ pw[w].pc = "commit"
    /\ parties' = {IF x.by = w THEN [x EXCEPT !.by = 0] ELSE x : x \in parties}
    /\ party_types' =
          {IF x.by = w THEN [x EXCEPT !.by = 0] ELSE x : x \in party_types}
    /\ pw' = [pw EXCEPT ![w] = [@ EXCEPT !.pc = "done"]]
    /\ UNCHANGED <<attorneys, roles, crim, orgs, pa>>
    /\ UNCHANGED <<metaVars, locatorVars, docVars, sq, cq, ap, ew, ow, po>>

\* The positions at which the call is about to run a statement.
StatementPcs == {"find", "create", "type", "attorneys", "disassociate"}

\* The exception leaves transaction.atomic: everything the transaction
\* wrote is rolled back.
RolledBack(w) ==
    /\ parties' = pw[w].snap.parties
    /\ party_types' = pw[w].snap.party_types
    /\ crim' = pw[w].snap.crim
    /\ attorneys' = pw[w].snap.attorneys
    /\ roles' = pw[w].snap.roles
    /\ orgs' = pw[w].snap.orgs
    /\ pw' = [pw EXCEPT ![w] = [@ EXCEPT !.pc = "failed"]]

\* A statement fails with OperationalError (lock wait timeout, deadlock).
\* The retry decorator, inside transaction.atomic, catches it and calls the
\* function again while attempts are left; the database has either undone
\* the statement only or aborted the whole transaction.  Out of attempts,
\* the exception propagates.
OperationalError(w) ==
    /\ pw[w].pc \in StatementPcs
    /\ ~pw[w].aborted
    /\ IF pw[w].attempt < parties_tries
       THEN /\ \E aborted \in BOOLEAN :
                  pw' = [pw EXCEPT ![w] = NewAttempt(@, aborted)]
            /\ UNCHANGED <<parties, attorneys, party_types, roles, crim, orgs>>
       ELSE RolledBack(w)
    /\ UNCHANGED pa
    /\ UNCHANGED <<metaVars, locatorVars, docVars, sq, cq, ap, ew, ow, po>>

\* In a transaction the database has aborted every further statement fails
\* with an error the retry decorator does not catch.
FailedTransaction(w) ==
    /\ pw[w].pc \in StatementPcs
    /\ pw[w].aborted
    /\ RolledBack(w)
    /\ UNCHANGED pa
    /\ UNCHANGED <<metaVars, locatorVars, docVars, sq, cq, ap, ew, ow, po>>

\* Empty party tables and idle workers ws.
PwInit(ws) ==
    /\ d = BlankDocket
    /\ md = MdIdle
    /\ dockets = {}
    /\ fd = FdIdle
    /\ parties = {}
    /\ attorneys = {}
    /\ party_types = {}
    /\ roles = {}
    /\ crim = {}
    /\ orgs = [rows |-> {}, assoc |-> {}]
    /\ pa = PaIdle
    /\ des = {}
    /\ rds = {}
    /\ ids = [de |-> 1, rd |-> 1]
    /\ dkt = DktInit
    /\ kl = KlIdle
    /\ ae = AeIdle
    /\ ma = MaIdle
    /\ sq = SqIdle
    /\ cq = CqIdle
    /\ ap = ApIdle
    /\ pw = [w \in ws |-> WorkerIdle]
    /\ ew = EwIdle
    /\ ow = OwIdle
    /\ po = PoIdle

PartiesRetryInit == PwInit({1})

PartiesRetryNext ==
    \/ PaBegin(1, RetryLists)
    \/ PaFind(1)
    \/ PaCreate(1)
    \/ PaType(1)
    \/ PaAttorneys(1)
    \/ PaDisassociate(1)
    \/ PaCommit(1)
    \/ OperationalError(1)
    \/ FailedTransaction(1)

SpecPartiesRetry == PartiesRetryInit /\ [][PartiesRetryNext]_vars

PartiesRaceInit == PwInit(PwWorkers)

PartiesRaceNext ==
    \E w \in PwWorkers :
        \/ PaBegin(w, RaceLists)
        \/ PaFind(w)
        \/ PaCreate(w)
        \/ PaType(w)
        \/ PaAttorneys(w)
        \/ PaDisassociate(w)
        \/ PaCommit(w)

SpecPartiesRace == PartiesRaceInit /\ [][PartiesRaceNext]_vars

\* C25: the bounded retry of add_parties_and_attorneys wraps the
\* transaction: when a further attempt starts, the writes of the failed
\* attempt are rolled back and the attempt runs in a transaction of its own.
C25_RetryWrapsTransaction ==
    [][\A w \in DOMAIN pw :
          (pw[w].attempt >= 1 /\ pw'[w].attempt = pw[w].attempt + 1) =>
              /\ pw'[w].txns[pw'[w].attempt] # pw[w].txns[pw[w].attempt]
              /\ Tables' = pw[w].snap]_vars

\* C26: add_parties_and_attorneys never mutates the party list of its
\* caller: during and after the call, retries included, the caller's list
\* still holds the free-text roles it was passed with.
C26_CallerListUntouched ==
    \A w \in DOMAIN pw :
        pw[w].pc # "idle" =>
            ~pw[w].caller.normalized /\ pw[w].caller.parties = pw[w].args

\* A retry is running on normalized roles while the caller's list still has
\* the raw strings.
C26_Witness ==
    \E w \in DOMAIN pw :
        /\ pw[w].attempt = 2
        /\ pw[w].pc = "attorneys"
        /\ pw[w].local_parties.normalized
        /\ ~pw[w].caller.normalized
        /\ \E k \in DOMAIN pw[w].caller.parties :
              \E j \in DOMAIN pw[w].caller.parties[k].attorneys :
                  /\ pw[w].caller.parties[k].attorneys[j].roles
                        = <<LEAD_RAW, TERMINATED_RAW>>
                  /\ pw[w].local_parties.parties[k].attorneys[j].roles
                        = {normalize_attorney_role(LEAD_RAW),
                           normalize_attorney_role(TERMINATED_RAW)}

\* The Party rows named name that are linked to the docket.
LinkedParties(name) ==
    {x \in parties : x.name = name /\ \E pt \in party_types : pt.party = x.pk}

\* C27: two concurrent add_parties_and_attorneys calls for one docket whose
\* inputs name the same new party leave exactly one Party row with that
\* name linked to the docket.
C27_OnePartyPerName ==
    (\A w \in DOMAIN pw : pw[w].pc = "done")
    => Cardinality(LinkedParties("P1")) = 1

(***************************************************************************)
(* Unnumbered entries: add_docket_entries on single unnumbered dicts of    *)
(* one filing date, which differ in their long and short descriptions.     *)
(***************************************************************************)
MaxUnnumberedDicts == 3

UnnumberedLists ==
    { << UDict(Some(1), "A", "", "") >>,
      << UDict(Some(1), "B", "S", "") >>,
      << UDict(Some(1), "A", "S", "") >>,
      << UDict(Some(1), "", "S", "") >>,
      << UDict(Some(1), "", "", "") >> }

UnnumberedAddEntries ==
    AddDocketEntriesWithin(UnnumberedLists, MaxUnnumberedDicts)

UnnumberedNext == UnnumberedAddEntries

SpecUnnumbered == EntriesInit /\ [][UnnumberedNext]_vars

\* The entries that matched the unnumbered dict of the last call when the
\* call started, by filing date and long or short description.
MatchedBefore ==
    LET raw == ae.docket_entries[1]
        e == [raw EXCEPT !.description = normalize_long_description(@)]
        rows == UnnumberedRows([des |-> ae.before.des, rds |-> ae.before.rds], e)
    IN  {x \in ae.before.des : \E row \in rows : row[1] = x.pk}

\* C30: when an unnumbered incoming entry matches several stored entries by
\* filing date and long or short description, exactly one of the matched
\* entries remains after the call, and it is one whose long description was
\* the incoming one or blank whenever such an entry was among them.
C30_OneMatchRemains ==
    (/\ ae.called
     /\ Len(ae.docket_entries) = 1
     /\ Cardinality(MatchedBefore) >= 2)
    => LET kept == {x \in MatchedBefore : \E y \in des : y.pk = x.pk}
           preferred == {x \in MatchedBefore :
                           x.description
                             \in {"", ae.docket_entries[1].description}}
       IN  /\ Cardinality(kept) = 1
           /\ preferred # {} => kept \subseteq preferred

(***************************************************************************)
(* Concurrent add_docket_entries calls that carry the same numbered entry: *)
(* add_create_docket_entry_transaction under the row lock on the Docket,   *)
(* then the save of the entry.  A row inserted by an open transaction is   *)
(* in own of its worker and hidden from the others until the commit.  The  *)
(* RECAPDocument steps of the calls do not touch DocketEntry rows.         *)
(***************************************************************************)
EwWorkers == {1, 2}

\* The numbered dict both calls carry.
RaceEntryDicts ==
    { NDict(n, Some(1), "A", "", "X", seq, None)
      : n \in {"1", "2"}, seq \in {None, Some(5)} }

\* The DocketEntry rows before the calls: none, one with another number, or
\* one with the racing number and no sequence number.
RaceEntryStores ==
    { {},
      {[NewDE(1, Some(3), None) EXCEPT !.date_filed = Some(1)]},
      {[NewDE(1, Some(1), None) EXCEPT !.date_filed = Some(1)]} }

\* A mutation of DocketLockFree: select_for_update never waits.
DocketLockFree_NoLock(holder) == TRUE

\* Docket.objects.select_for_update().get(pk=d.pk) returns once no other
\* transaction holds the lock on the row.
DocketLockFree(holder) == holder = 0

\* The rows worker w sees: all but the uncommitted inserts of the others.
VisibleEntries(w) ==
    {x \in des : \A o \in EwWorkers \ {w} : x.pk \notin ew.workers[o].own}

\* with transaction.atomic(): Docket.objects.select_for_update().get(...)
EwLock(w) ==
    /\ ew.workers[w].pc = "lock"
    /\ DocketLockFree(ew.lock)
    /\ ew' = [ew EXCEPT !.lock = w, !.workers[w].pc = "body"]
    /\ UNCHANGED <<metaVars, locatorVars, partyVars, docVars, sq, cq, ap, pw, ow, po>>

\* The body of the transaction: find the entry, adopt one stored without
\* sequence number, or create it.
EwBody(w) ==
    /\ ew.workers[w].pc = "body"
    /\ \E st \in {add_create_docket_entry_transaction(
                     [des |-> VisibleEntries(w), rds |-> rds, ids |-> ids,
                      de |-> NewDE(0, None, None), de_created |-> FALSE,
                      found |-> FALSE], ew.e)} :
          /\ des' = st.des \cup (des \ VisibleEntries(w))
          /\ rds' = st.rds
          /\ ids' = st.ids
          /\ ew' = [ew EXCEPT
                      !.workers[w] =
                          [@ EXCEPT !.pc = "commit",
                                    !.found = st.found,
                                    !.de = IF st.found THEN st.de.pk ELSE 0,
                                    !.de_created = st.de_created,
                                    !.own = {x.pk : x \in
                                               st.des \ VisibleEntries(w)}]]
    /\ UNCHANGED <<dkt, kl, ae, ma>>
    /\ UNCHANGED <<metaVars, locatorVars, partyVars, sq, cq, ap, pw, ow, po>>

\* The with block ends: the transaction commits and the lock is released.
EwCommit(w) ==
    /\ ew.workers[w].pc = "commit"
    /\ ew' = [ew EXCEPT !.lock = IF @ = w THEN 0 ELSE @,
                        !.workers[w].own = {},
                        !.workers[w].pc =
                            IF ew.workers[w].found THEN "save" ELSE "done"]
    /\ UNCHANGED <<metaVars, locatorVars, partyVars, docVars, sq, cq, ap, pw, ow, po>>

\* add_docket_entries sets the fields of the entry and saves it.
EwSave(w) ==
    /\ ew.workers[w].pc = "save"
    /\ des' = {IF x.pk = ew.workers[w].de
               THEN [x EXCEPT
                       !.description = OrStr(ew.e.description, @),
                       !.date_filed = ew.e.date_filed,
                       !.pacer_sequence_number =
                           IF ew.e.pacer_seq_no # None
                           THEN ew.e.pacer_seq_no ELSE @]
               ELSE x : x \in des}
    /\ ew' = [ew EXCEPT !.workers[w].pc = "done"]
    /\ UNCHANGED <<rds, ids, dkt, kl, ae, ma>>
    /\ UNCHANGED <<metaVars, locatorVars, partyVars, sq, cq, ap, pw, ow, po>>

\* Two calls are about to merge the same numbered dict.
EntryRaceInit ==
    /\ d = BlankDocket
    /\ md = MdIdle
    /\ dockets = {}
    /\ fd = FdIdle
    /\ parties = {}
    /\ attorneys = {}
    /\ party_types = {}
    /\ roles = {}
    /\ crim = {}
    /\ orgs = [rows |-> {}, assoc |-> {}]
    /\ pa = PaIdle
    /\ des \in RaceEntryStores
    /\ rds = {}
    /\ ids = [de |-> 2, rd |-> 1]
    /\ dkt = DktInit
    /\ kl = KlIdle
    /\ ae = AeIdle
    /\ ma = MaIdle
    /\ sq = SqIdle
    /\ cq = CqIdle
    /\ ap = ApIdle
    /\ pw = PwIdle
    /\ ow = OwIdle
    /\ po = PoIdle
    /\ \E e \in RaceEntryDicts :
          ew = [lock |-> 0, e |-> e, before |-> des,
                workers |-> [w \in EwWorkers |->
                               [pc |-> "lock", found |-> FALSE, de |-> 0,
                                de_created |-> FALSE, own |-> {}]]]

EntryRaceNext ==
    \E w \in EwWorkers : EwLock(w) \/ EwBody(w) \/ EwCommit(w) \/ EwSave(w)

SpecEntryRace == EntryRaceInit /\ [][EntryRaceNext]_vars

\* The workers whose call reported the entry as created.
EwCreators == {w \in EwWorkers : ew.workers[w].de_created}

\* C28: two concurrent add_docket_entries calls that carry the same
\* numbered entry leave exactly one DocketEntry row with that entry number
\* under every interleaving, and at most one of them reports it as created
\* (exactly one when no such row existed before).
C28_OneEntryOneCreator ==
    (\A w \in EwWorkers : ew.workers[w].pc = "done")
    => /\ Cardinality({x \in des :
                         x.entry_number = Some(ToInt(ew.e.document_number))}) = 1
       /\ Cardinality(EwCreators) <= 1
       /\ (\A x \in ew.before :
              x.entry_number # Some(ToInt(ew.e.document_number)))
          => Cardinality(EwCreators) = 1

\* Both calls are done on a docket that had no such entry: one created the
\* row and the other found it.
C28_Witness ==
    /\ \A w \in EwWorkers : ew.workers[w].pc = "done"
    /\ ew.before = {}
    /\ Cardinality(EwCreators) = 1
    /\ ew.workers[1].de = ew.workers[2].de
    /\ \E x \in des : x.pk = ew.workers[1].de
                      /\ x.pacer_sequence_number = Some(5)

\* C31: merging an unnumbered incoming entry with an empty long description
\* and no short description never deletes stored unnumbered entries of the
\* same filing date that have a non-empty long description.
C31_DescribedEntriesKept ==
    (/\ ae.called
     /\ Len(ae.docket_entries) = 1
     /\ ae.docket_entries[1].document_number = ""
     /\ ae.docket_entries[1].description = ""
     /\ ae.docket_entries[1].short_description = "")
    => \A x \in ae.before.des :
          (/\ x.entry_number = None
           /\ x.date_filed = ae.docket_entries[1].date_filed
           /\ x.description # "")
          => \E y \in des : y.pk = x.pk

\* The filed dates that a completed add_docket_entries call left on stored
\* numbered entries: the date of every input record whose entry is stored
\* with that date once the call has returned.
C32_ProcessedDates ==
    {Val(ae'.docket_entries[i].date_filed) :
        i \in {j \in 1..Len(ae'.docket_entries) :
                 /\ ae'.docket_entries[j].date_filed # None
                 /\ ae'.docket_entries[j].document_number # ""
                 /\ \E x \in des' :
                       /\ x.entry_number =
                            Some(ToInt(ae'.docket_entries[j].document_number))
                       /\ x.date_filed = ae'.docket_entries[j].date_filed}}

\* C32: after add_docket_entries completes, the stored date_last_filing is
\* the maximum of its value before the call and the filed dates of all the
\* entries processed, existing entries as well as new ones; so it is never
\* earlier than a filed date the call has stored on an entry.
C32_LastFilingIsMaximum ==
    [][(ae'.called /\ ae' # ae /\ ae'.status = "done")
       => \A date \in C32_ProcessedDates :
             /\ dkt'.date_last_filing # None
             /\ Val(dkt'.date_last_filing) >= date]_vars

(***************************************************************************)
(* add_docket_entries on records of one numbered entry, some for its main  *)
(* document and some for an attachment, with differing short descriptions. *)
(***************************************************************************)
MaxBackfillDicts == 3

BackfillLists ==
    { << NDict("1", Some(1), "A", "T", "X", None, None) >>,
      << NDict("1", Some(1), "A", "", "X", None, None) >>,
      << NDict("1", Some(1), "A", "S", "Y", None, Some(1)) >>,
      << NDict("1", Some(1), "A", "", "Y", None, Some(1)) >>,
      << NDict("1", Some(1), "A", "T", "Z", None, Some(2)) >> }

BackfillAddEntries == AddDocketEntriesWithin(BackfillLists, MaxBackfillDicts)

BackfillNext == BackfillAddEntries

SpecBackfill == EntriesInit /\ [][BackfillNext]_vars

\* C33: a short description carried by a record that resolves to an
\* attachment document leaves a main document description that was already
\* non-empty unchanged.
C33_SetDescriptionKept ==
    (/\ ae.called
     /\ Len(ae.docket_entries) = 1
     /\ ae.docket_entries[1].attachment_number # None
     /\ ae.docket_entries[1].short_description # "")
    => \A r \in ae.before.rds :
          (/\ r.document_type = PACER_DOCUMENT
           /\ r.attachment_number = None
           /\ r.description # "")
          => \A r2 \in rds : r2.pk = r.pk => r2.description = r.description

(***************************************************************************)
(* merge_attachment_page_data on attachment pages that report differing    *)
(* page counts and sizes for the same attachment.                          *)
(***************************************************************************)
SizeLists ==
    { << AttDict(Some(1), "Y", "att 1", TRUE, Some(5), Some(100), "", None) >>,
      << AttDict(Some(1), "Y", "att 1", TRUE, Some(7), Some(200), "", None) >>,
      << AttDict(Some(1), "Y", "att 1", TRUE, Some(7), None, "1 KB", None) >>,
      << AttDict(Some(1), "Y", "att 1", FALSE, None, None, "", None) >>,
      << AttDict(Some(2), "Y", "att 2", TRUE, Some(5), None, "1 KB", None) >> }

SizesMergeAttachmentPageData ==
    MergeAttachmentPageDataFrom(CallProfiles, SizeLists)

SizesNext == SizesMergeAttachmentPageData

SpecSizes == AttachInit /\ [][SizesNext]_vars

\* the row of the last call's starting table and the row it has become
C34_Pairs ==
    {pair \in ma.before \X rds : pair[1].pk = pair[2].pk}

C35_EmptyNeverOverwrites ==
    [][\A pt \in party_types : \A pt2 \in party_types' :
          pt2.pk = pt.pk
          => /\ pt.date_terminated # None => pt2.date_terminated # None
             /\ pt.extra_info # "" => pt2.extra_info # ""]_vars

\* C36: add_parties_and_attorneys called with an empty party list changes
\* nothing: no PartyType, Role, Party or Attorney row is created, modified
\* or removed.
C36_EmptyListChangesNothing ==
    [][(pa'.pc = "returned" /\ pa'.calls # pa.calls)
       => UNCHANGED <<parties, attorneys, party_types, roles, crim, orgs>>]_vars

\* A call with an empty list has returned on a docket that has parties that
\* are not terminated, with attorneys.
C36_Witness ==
    /\ pa.pc = "returned"
    /\ \E pt \in party_types : pt.date_terminated = None
    /\ roles # {}
    /\ pa.before = RowsOfDocket

(***************************************************************************)
(* The organization step of add_attorney, run by two concurrent calls.     *)
(* add_attorney is called from add_parties_and_attorneys only, so each     *)
(* call runs inside the transaction of its caller: rows it inserts are     *)
(* tagged with the worker until that transaction commits.  lookup_key is   *)
(* unique: an INSERT of a key that an open transaction has inserted waits  *)
(* for that transaction, and an INSERT of a committed key fails with       *)
(* IntegrityError, which aborts the transaction of the inserter.           *)
(***************************************************************************)
OwWorkers == {1, 2}
OrgKeys == {"firm", "office"}

OrgWorkerIdle ==
    [pc |-> "idle", key |-> "", org |-> 0, aborted |-> FALSE, fresh |-> FALSE]

\* the AttorneyOrganization rows worker w can read
VisibleOrgs(w) == {r \in ow.rows : r.by \in {0, w}}

\* the unique constraint on AttorneyOrganization.lookup_key: a row with the
\* key is in the table
OrgUniqueViolation(rows, key) == \E r \in rows : r.lookup_key = key

\* add_attorney is called with an attorney whose contact normalizes to key
OrgBegin(w) ==
    /\ ow.wk[w].pc = "idle"
    /\ \E key \in OrgKeys :
          ow' = [ow EXCEPT !.wk[w] =
                    [OrgWorkerIdle EXCEPT
                       !.pc = "get", !.key = key,
                       !.fresh = ~\E r \in ow.rows : r.lookup_key = key]]
    /\ UNCHANGED <<partyVars, docVars>>
    /\ UNCHANGED <<metaVars, locatorVars, sq, cq, ap, pw, ew, po>>

\* org = AttorneyOrganization.objects.get(lookup_key=..)
OrgGet(w) ==
    /\ ow.wk[w].pc = "get"
    /\ LET got == {r \in VisibleOrgs(w) : r.lookup_key = ow.wk[w].key}
       IN  ow' = [ow EXCEPT !.wk[w] =
                    IF got = {} THEN [@ EXCEPT !.pc = "create"]
                    ELSE [@ EXCEPT !.pc = "associate",
                                   !.org = (CHOOSE r \in got : TRUE).pk]]
    /\ UNCHANGED <<partyVars, docVars>>
    /\ UNCHANGED <<metaVars, locatorVars, sq, cq, ap, pw, ew, po>>

\* org = AttorneyOrganization.objects.create(**atty_org_info), with
\* "except IntegrityError" around it
OrgCreate(w) ==
    /\ ow.wk[w].pc = "create"
    /\ ~\E r \in ow.rows : r.lookup_key = ow.wk[w].key /\ r.by \notin {0, w}
    /\ LET made == [pk |-> Cardinality(ow.rows) + 1,
                    lookup_key |-> ow.wk[w].key, by |-> w]
       IN  IF OrgUniqueViolation(ow.rows, ow.wk[w].key)
           THEN ow' = [ow EXCEPT !.wk[w] =
                          [@ EXCEPT !.pc = "reget", !.aborted = TRUE]]
           ELSE ow' = [ow EXCEPT !.rows = @ \cup {made},
                                 !.wk[w] = [@ EXCEPT !.pc = "associate",
                                                     !.org = made.pk]]
    /\ UNCHANGED <<partyVars, docVars>>
    /\ UNCHANGED <<metaVars, locatorVars, sq, cq, ap, pw, ew, po>>

\* the handler's org = AttorneyOrganization.objects.get(lookup_key=..).  In
\* a transaction the database has aborted the query fails; the exception
\* leaves add_attorney and the transaction of the caller, which rolls back.
OrgGetAgain(w) ==
    /\ ow.wk[w].pc = "reget"
    /\ LET got == {r \in VisibleOrgs(w) : r.lookup_key = ow.wk[w].key}
       IN  IF ow.wk[w].aborted \/ got = {}
           THEN ow' = [ow EXCEPT !.rows = {r \in @ : r.by # w},
                                 !.wk[w] = [@ EXCEPT !.pc = "failed"]]
           ELSE ow' = [ow EXCEPT !.wk[w] =
                          [@ EXCEPT !.pc = "associate",
                                    !.org = (CHOOSE r \in got : TRUE).pk]]
    /\ UNCHANGED <<partyVars, docVars>>
    /\ UNCHANGED <<metaVars, locatorVars, sq, cq, ap, pw, ew, po>>

\* AttorneyOrganizationAssociation.objects.get_or_create(..) and the rest of
\* add_attorney
OrgAssociate(w) ==
    /\ ow.wk[w].pc = "associate"
    /\ ow' = [ow EXCEPT !.assoc = @ \cup {[attorney |-> w,
                                           org |-> ow.wk[w].org]},
                        !.wk[w] = [@ EXCEPT !.pc = "commit"]]
    /\ UNCHANGED <<partyVars, docVars>>
    /\ UNCHANGED <<metaVars, locatorVars, sq, cq, ap, pw, ew, po>>

\* add_parties_and_attorneys returns and its transaction commits
OrgCommit(w) ==
    /\ ow.wk[w].pc = "commit"
    /\ ow' = [ow EXCEPT !.rows = {IF r.by = w THEN [r EXCEPT !.by = 0]
                                  ELSE r : r \in @},
                        !.wk[w] = [@ EXCEPT !.pc = "done"]]
    /\ UNCHANGED <<partyVars, docVars>>
    /\ UNCHANGED <<metaVars, locatorVars, sq, cq, ap, pw, ew, po>>

OrgRaceInit ==
    /\ d = BlankDocket
    /\ md = MdIdle
    /\ dockets = {}
    /\ fd = FdIdle
    /\ parties = {}
    /\ attorneys = {}
    /\ party_types = {}
    /\ roles = {}
    /\ crim = {}
    /\ orgs = [rows |-> {}, assoc |-> {}]
    /\ pa = PaIdle
    /\ des = {}
    /\ rds = {}
    /\ ids = [de |-> 1, rd |-> 1]
    /\ dkt = DktInit
    /\ kl = KlIdle
    /\ ae = AeIdle
    /\ ma = MaIdle
    /\ sq = SqIdle
    /\ cq = CqIdle
    /\ ap = ApIdle
    /\ pw = PwIdle
    /\ ew = EwIdle
    /\ ow = [rows |-> {}, assoc |-> {},
             wk |-> [w \in OwWorkers |-> OrgWorkerIdle]]
    /\ po = PoIdle

OrgRaceNext ==
    \E w \in OwWorkers :
        \/ OrgBegin(w)
        \/ OrgGet(w)
        \/ OrgCreate(w)
        \/ OrgGetAgain(w)
        \/ OrgAssociate(w)
        \/ OrgCommit(w)

SpecOrgRace == OrgRaceInit /\ [][OrgRaceNext]_vars

\* C37: two concurrent add_attorney calls with the same organization lookup
\* key, started when no organization with that key exists, end with exactly
\* one AttorneyOrganization row for the key, and neither call fails.
C37_OneOrganizationNoFailure ==
    (/\ \A w \in OwWorkers : ow.wk[w].pc \in {"done", "failed"}
     /\ \A w \in OwWorkers : ow.wk[w].fresh
     /\ ow.wk[1].key = ow.wk[2].key)
    => /\ Cardinality({r \in ow.rows : r.lookup_key = ow.wk[1].key}) = 1
       /\ \A w \in OwWorkers : ow.wk[w].pc = "done"

(***************************************************************************)
(* process_orphan_documents: the processing queue, the documents a call    *)
(* has created, and the re-submission of the queue items that match them.  *)
(* process_recap_pdf is a collaborator: each re-submission either returns  *)
(* or raises.  Dates are day numbers.                                      *)
(***************************************************************************)
MaxQueue == 3

Today == 300
FAILED == "FAILED"
SUCCESSFUL == "SUCCESSFUL"
PDF == "PDF"
DOCKET == "DOCKET"

\* ProcessingQueue(pk, pacer_doc_id, court_id, status, upload_type, debug,
\* date_modified)
PQ(pk, pacer_doc_id, court_id, status, upload_type, debug, date_modified) ==
    [pk |-> pk, pacer_doc_id |-> pacer_doc_id, court_id |-> court_id,
     status |-> status, upload_type |-> upload_type, debug |-> debug,
     date_modified |-> date_modified]

QueueItems ==
    { PQ(1, "X", "c1", FAILED, PDF, FALSE, 200),
      PQ(2, "Y", "c1", FAILED, PDF, FALSE, 200),
      PQ(3, "X", "c1", FAILED, PDF, TRUE, 200),
      PQ(4, "X", "c2", FAILED, PDF, FALSE, 200),
      PQ(5, "X", "c1", SUCCESSFUL, PDF, FALSE, 200),
      PQ(6, "X", "c1", FAILED, DOCKET, FALSE, 200),
      PQ(7, "X", "c1", FAILED, PDF, FALSE, 60),
      PQ(8, "X", "c1", FAILED, PDF, FALSE, 100),
      PQ(9, "Z", "c1", FAILED, PDF, FALSE, 200) }

Queues == {q \in SUBSET QueueItems : Cardinality(q) <= MaxQueue}

\* lines 2037-2044: 30 days before the docket's date, or 180 days ago
cutoff_date(docket_date) ==
    IF docket_date # None THEN Val(docket_date) - 30 ELSE Today - 180

\* pqs = ProcessingQueue.objects.filter(..).values_list("pk", flat=True)
OrphanQueueItems(queue, pacer_doc_ids, court_id, docket_date) ==
    {q.pk : q \in {x \in queue :
                     /\ x.pacer_doc_id \in pacer_doc_ids
                     /\ x.court_id = court_id
                     /\ x.status = FAILED
                     /\ x.upload_type = PDF
                     /\ x.debug = FALSE
                     /\ x.date_modified > cutoff_date(docket_date)}}

\* A mutation of ExceptCatches: the handler lets the exception through.
ExceptCatches_Nothing(outcome) == FALSE

\* the bare "except:" around process_recap_pdf(pq)
ExceptCatches(outcome) == TRUE

\* "async for pq in pqs.aiterator()", in primary key order; outcomes[pq]
\* says whether process_recap_pdf(pq) raises
RECURSIVE ResubmitAll(_, _, _)
ResubmitAll(st, todo, outcomes) ==
    IF todo = {} \/ st.status # "run" THEN st
    ELSE LET pq == CHOOSE k \in todo : \A o \in todo : k <= o
             st1 == [st EXCEPT !.submitted = @ \cup {pq}]
         IN ResubmitAll(IF outcomes[pq] = "raises"
                        THEN IF ExceptCatches(outcomes[pq])
                             THEN [st1 EXCEPT !.swallowed = @ \cup {pq}]
                             ELSE [st1 EXCEPT !.status = "raised"]
                        ELSE st1,
                        todo \ {pq}, outcomes)

\* process_orphan_documents(rds_created, court_id, docket_date)
process_orphan_documents(queue, rds_created, court_id, docket_date, outcomes) ==
    LET pacer_doc_ids == rds_created
        pqs == OrphanQueueItems(queue, pacer_doc_ids, court_id, docket_date)
        st == ResubmitAll([status |-> "run", submitted |-> {},
                           swallowed |-> {}], pqs, outcomes)
    IN [st EXCEPT !.status = IF @ = "run" THEN "done" ELSE @]

\* a call for court c1 on some queue, with the external ids of the
\* documents the caller created
ProcessOrphanDocuments ==
    /\ po.pc = "idle"
    /\ \E queue \in Queues, rds_created \in {{}, {"X"}, {"X", "Y"}},
          docket_date \in {None, Some(100)} :
          \E outcomes \in [{q.pk : q \in queue} -> {"ok", "raises"}] :
             \E st \in {process_orphan_documents(queue, rds_created, "c1",
                                                 docket_date, outcomes)} :
                po' = [pc |-> "called", queue |-> queue,
                       rds_created |-> rds_created,
                       docket_date |-> docket_date, outcomes |-> outcomes,
                       status |-> st.status, submitted |-> st.submitted,
                       swallowed |-> st.swallowed]
    /\ UNCHANGED <<partyVars, docVars>>
    /\ UNCHANGED <<metaVars, locatorVars, sq, cq, ap, pw, ew, ow>>

OrphanInit ==
    /\ d = BlankDocket
    /\ md = MdIdle
    /\ dockets = {}
    /\ fd = FdIdle
    /\ parties = {}
    /\ attorneys = {}
    /\ party_types = {}
    /\ roles = {}
    /\ crim = {}
    /\ orgs = [rows |-> {}, assoc |-> {}]
    /\ pa = PaIdle
    /\ des = {}
    /\ rds = {}
    /\ ids = [de |-> 1, rd |-> 1]
    /\ dkt = DktInit
    /\ kl = KlIdle
    /\ ae = AeIdle
    /\ ma = MaIdle
    /\ sq = SqIdle
    /\ cq = CqIdle
    /\ ap = ApIdle
    /\ pw = PwIdle
    /\ ew = EwIdle
    /\ ow = OwIdle
    /\ po = [pc |-> "idle", queue |-> {}, rds_created |-> {},
             docket_date |-> None, outcomes |-> <<>>, status |-> "done",
             submitted |-> {}, swallowed |-> {}]

OrphanNext == ProcessOrphanDocuments

SpecOrphan == OrphanInit /\ [][OrphanNext]_vars

\* the failed standalone-PDF items of court c1 whose external id is that of
\* a created document and that were modified inside the window of the call
C38_FailedPdfItems ==
    {q \in po.queue :
       /\ q.status = FAILED
       /\ q.upload_type = PDF
       /\ q.court_id = "c1"
       /\ q.pacer_doc_id \in po.rds_created
       /\ IF po.docket_date = None THEN q.date_modified > Today - 180
          ELSE q.date_modified > Val(po.docket_date) - 30}

\* C38 as stated: every failed standalone-PDF item of the court in the
\* window with the external id of a created document is re-submitted, and
\* the call terminates normally whatever the re-submissions raise.
C38_Original ==
    po.pc = "called"
    => /\ po.status = "done"
       /\ po.submitted = {q.pk : q \in C38_FailedPdfItems}

\* C38: the items re-submitted are the failed standalone-PDF items of the
\* court in the window with the external id of a created document that are
\* not debug items; an exception of a re-submission is swallowed, the
\* remaining items are still re-submitted and the call terminates normally.
C38_NonDebugItemsResubmitted ==
    po.pc = "called"
    => /\ po.status = "done"
       /\ po.submitted = {q.pk : q \in {x \in C38_FailedPdfItems : ~x.debug}}

\* A call has re-submitted two items although the first re-submission
\* raised, and has left a debug item alone.
C38_Witness ==
    /\ po.pc = "called"
    /\ po.status = "done"
    /\ po.submitted = {1, 2}
    /\ po.outcomes[1] = "raises"
    /\ po.swallowed = {1}
    /\ \E q \in po.queue : q.debug

\* C39: merge_attachment_page_data is all-or-nothing: when the call raises
\* after the main document was resolved, the documents are as they were
\* before the call.
C39_AllOrNothing ==
    (/\ ma.called
     /\ ma.main # None
     /\ ma.status \notin {"done", "debug"})
    => rds = ma.before

\* C40: merge_attachment_page_data called with debug=true performs no write
\* on any path: no document is created, reclassified, saved or deleted and
\* no page is archived, whether the call returns or raises.
C40_DebugWritesNothing ==
    [][(ma'.calls # ma.calls /\ ma'.args.debug)
       => UNCHANGED <<rds, des, dkt>>]_vars


====
